---- MODULE Spec2Model ----
(***************************************************************************)
(* Token-lifecycle and request-dispatch engine of the Bazik SDK            *)
(* (src/src/index.mjs): the Bazik client's credential (#token,             *)
(* #tokenExpiresAt), authenticate(), isTokenValid(), getToken() and        *)
(* _request(), run by concurrently outstanding calls.  Every `await` of    *)
(* the source is a point where another call's continuation may run, so     *)
(* every await is a boundary between two actions.                          *)
(*                                                                         *)
(* Optional JavaScript values are modelled as sequences of length <= 1:    *)
(* <<>> is undefined/null, <<x>> is the value x.                           *)
(***************************************************************************)
EXTENDS Integers, Sequences, FiniteSets, TLC

None == <<>>
Some(x) == <<x>>

\* ---- bounds of the model -------------------------------------------------
\* The clock advances at most MaxTicks times.
MaxTicks == 2
\* At most MaxOps calls are started in one behaviour.
MaxOps == 3

\* Number of calls of the polling helper in a behaviour.
MaxPolls == 1

\* ---- constants of the program --------------------------------------------
TOKEN_REFRESH_MARGIN_MS == 3600000

\* One clock step: the clock moves in steps of one refresh margin.
TickMs == TOKEN_REFRESH_MARGIN_MS

\* The concurrently outstanding calls (independent call sites of one client).
Calls == {"A", "B"}

\* ---- the transport's possible answers ------------------------------------
NoFields ==
  [token |-> None, expires_at |-> None, error |-> None, message |-> None,
   status |-> None]

\* A body { token, expires_at }.
TokenBody(t, e) == [NoFields EXCEPT !.token = Some(t), !.expires_at = e]

\* The credentials the server issues.  Each token comes with its own expiry:
\* tokA expires two margins after the initial clock (fresh until one tick has
\* passed), tokB one margin after it (never fresh), tokC carries no expires_at.
TokenBodies ==
  { TokenBody("tokA", Some(2 * TOKEN_REFRESH_MARGIN_MS)),
    TokenBody("tokB", Some(TOKEN_REFRESH_MARGIN_MS)),
    TokenBody("tokC", None) }

\* A body { error: { message, code, details } }.
ErrFull ==
  [NoFields EXCEPT !.error = Some([message |-> Some("srv_msg"),
                                    code |-> Some("srv_code"),
                                    details |-> Some("srv_details")])]

\* A body { error } whose code is the one of the client's own validation
\* error.
ErrValidation ==
  [NoFields EXCEPT !.error = Some([message |-> Some("srv_msg"),
                                    code |-> Some("validation_error"),
                                    details |-> Some("srv_details")])]

\* A body { message } with no error object.
MsgOnly == [NoFields EXCEPT !.message = Some("top_msg")]

\* A payment { status }.
Payment(st) == [NoFields EXCEPT !.status = Some(st)]

Response(status, data) == [status |-> status, data |-> data]

\* What the /token endpoint may answer.
AuthResponses ==
  {Response(200, d) : d \in TokenBodies \cup {ErrFull, NoFields}}
    \cup {Response(st, d) : st \in {401, 429, 500}, d \in {ErrFull, NoFields}}
    \cup {Response(500, TokenBody("tokA", Some(2 * TOKEN_REFRESH_MARGIN_MS)))}

\* What any other endpoint may answer.
EndpointResponses ==
  {Response(st, d) : st \in {200, 204, 400, 401, 402, 429, 500},
                     d \in {ErrFull, NoFields}}
    \cup {Response(500, MsgOnly)}

\* The (method, path, body) triples the facades hand to _request.
Descriptors ==
  { [method |-> "GET", path |-> "/wallet", body |-> None],
    [method |-> "POST", path |-> "/moncash/token", body |-> Some("payment")] }

\* ---- JavaScript operators ------------------------------------------------
\* Truthiness of an optional string.
Falsy(x) == x = None \/ x = Some("")

\* a || b
OrElse(a, b) == IF Falsy(a) THEN b ELSE a

\* data?.error?.f
ErrField(data, f) == IF data.error = None THEN None ELSE data.error[1][f]

\* JSON.stringify(body)
Stringify(body) == <<"json", body>>

\* ---- the error taxonomy --------------------------------------------------
\* status, code and details are stored as `x ?? null`.
BazikError(message, status, code, details) ==
  [kind |-> "error", name |-> "BazikError", message |-> message,
   status |-> status, code |-> code, details |-> details]

BazikAuthError(message, status, code, details) ==
  [BazikError(message, status, code, details) EXCEPT !.name = "BazikAuthError"]

BazikInsufficientFundsError(message, details) ==
  [BazikError(message, Some(402), Some("insufficient_funds"), details)
     EXCEPT !.name = "BazikInsufficientFundsError"]

BazikRateLimitError(message, details) ==
  [BazikError(message, Some(429), Some("rate_limit_exceeded"), details)
     EXCEPT !.name = "BazikRateLimitError"]

\* A value returned to the caller.
Ok(v) == [kind |-> "ok", value |-> v]

\* An exception that is not a BazikError: a rejected fetch (network error,
\* abort on timeout) or an exception thrown by the onTokenRefresh hook.
Thrown(what) == [kind |-> "thrown", what |-> what]

NoResult == [kind |-> "none"]

\* ---- JavaScript values handed to the facades -------------------------------
\* A value: its kind t, the number n (kind "number": a finite number) and
\* the characters s (kind "string").  The kinds "NaN", "Infinity" and
\* "-Infinity" are the numbers that are not finite.
Undefined == [t |-> "undefined", n |-> 0, s |-> <<>>]

Null == [t |-> "null", n |-> 0, s |-> <<>>]

Num(n) == [t |-> "number", n |-> n, s |-> <<>>]

NaN == [t |-> "NaN", n |-> 0, s |-> <<>>]

Infinity == [t |-> "Infinity", n |-> 0, s |-> <<>>]

MinusInfinity == [t |-> "-Infinity", n |-> 0, s |-> <<>>]

Str(s) == [t |-> "string", n |-> 0, s |-> s]

\* The booleans: n is 1 for true and 0 for false.
False == [t |-> "boolean", n |-> 0, s |-> <<>>]

True == [t |-> "boolean", n |-> 1, s |-> <<>>]

\* typeof v
TypeOf(v) ==
  CASE v.t \in {"number", "NaN", "Infinity", "-Infinity"} -> "number"
    [] v.t = "null" -> "object"
    [] OTHER -> v.t

\* isFinite(v), for a v whose typeof is "number"
IsFinite(v) == v.t = "number"

\* !v is false
Truthy(v) ==
  CASE v.t \in {"number", "boolean"} -> v.n # 0
    [] v.t = "string" -> v.s # <<>>
    [] v.t \in {"Infinity", "-Infinity"} -> TRUE
    [] OTHER -> FALSE

\* The text of a sequence of characters.
RECURSIVE StringOf(_)
StringOf(s) == IF s = <<>> THEN "" ELSE Head(s) \o StringOf(Tail(s))

\* `${v}` in a template literal
ToStr(v) ==
  CASE v.t = "number" -> ToString(v.n)
    [] v.t = "boolean" -> IF v.n = 0 THEN "false" ELSE "true"
    [] v.t = "string" -> StringOf(v.s)
    [] OTHER -> v.t

\* Array.prototype.join
RECURSIVE JoinWith(_, _)
JoinWith(strs, sep) ==
  IF strs = <<>> THEN ""
  ELSE IF Len(strs) = 1 THEN strs[1]
  ELSE strs[1] \o sep \o JoinWith(Tail(strs), sep)

\* encodeURIComponent(v): v is converted to its text, and every character
\* outside A-Z a-z 0-9 - _ . ! ~ * ' ( ) is percent-encoded; "/" and " " are
\* the characters of that kind in the values below.
EncodeChar(ch) ==
  IF ch = "/" THEN "%2F" ELSE IF ch = " " THEN "%20" ELSE ch

RECURSIVE EncodeChars(_)
EncodeChars(s) ==
  IF s = <<>> THEN "" ELSE EncodeChar(Head(s)) \o EncodeChars(Tail(s))

EncodeURIComponent(v) ==
  IF v.t = "string" THEN EncodeChars(v.s) ELSE ToStr(v)

\* ---- the input validators --------------------------------------------------
MAX_MONCASH_AMOUNT == 75000

BazikValidationError(message, details) ==
  [BazikError(message, Some(400), Some("validation_error"), details)
     EXCEPT !.name = "BazikValidationError"]

Digits == {"0", "1", "2", "3", "4", "5", "6", "7", "8", "9"}

\* \d{n} matches the n characters of s from position from on.
DigitsAt(s, from, n) ==
  /\ from + n - 1 <= Len(s)
  /\ \A i \in from..(from + n - 1) : s[i] \in Digits

\* Mutant: the pattern is /^\d{8,11}$/.
WalletPatternRange(s) ==
  /\ Len(s) \in 8..11
  /\ \A i \in DOMAIN s : s[i] \in Digits

\* /^\d{8}(\d{3})?$/.test(s): eight digits, then three more or none, then
\* the end of the text.
WalletPattern(s) ==
  /\ DigitsAt(s, 1, 8)
  /\ \/ Len(s) = 8
     \/ DigitsAt(s, 9, 3) /\ Len(s) = 11

\* The validators return None when they return and Some(error) when they
\* throw.
validateWallet(wallet) ==
  IF TypeOf(wallet) # "string" \/ ~WalletPattern(wallet.s)
    THEN Some(BazikValidationError(
           "Invalid wallet number \"" \o ToStr(wallet)
             \o "\". Must be 8 or 11 digits.", None))
    ELSE None

\* Mutant: an amount equal to the maximum is rejected.
validateAmountBelowMax(amount, max) ==
  IF TypeOf(amount) # "number" \/ ~IsFinite(amount) \/ amount.n <= 0
    THEN Some(BazikValidationError(
           "Invalid amount: " \o ToStr(amount) \o ". Must be a positive number.",
           None))
  ELSE IF max # Undefined /\ amount.n >= max.n
    THEN Some(BazikValidationError(
           "Amount " \o ToStr(amount) \o " exceeds maximum of " \o ToStr(max)
             \o " HTG.", None))
  ELSE None

validateAmount(amount, max) ==
  IF TypeOf(amount) # "number" \/ ~IsFinite(amount) \/ amount.n <= 0
    THEN Some(BazikValidationError(
           "Invalid amount: " \o ToStr(amount) \o ". Must be a positive number.",
           None))
  ELSE IF max # Undefined /\ amount.n > max.n
    THEN Some(BazikValidationError(
           "Amount " \o ToStr(amount) \o " exceeds maximum of " \o ToStr(max)
             \o " HTG.", None))
  ELSE None

\* Mutant: a field counts as missing when its value is falsy.
MissingFalsy(obj, fields) ==
  SelectSeq(fields, LAMBDA f : ~Truthy(obj[f]))

\* The fields of obj that are undefined, null or "".
Missing(obj, fields) ==
  SelectSeq(fields, LAMBDA f : obj[f] \in {Undefined, Null, Str(<<>>)})

validateRequired(obj, fields) ==
  IF Len(Missing(obj, fields)) > 0
    THEN Some(BazikValidationError(
           "Missing required field(s): " \o JoinWith(Missing(obj, fields), ", "),
           None))
    ELSE None

\* ---- the facades -----------------------------------------------------------
\* A params object with the fields the validators read; {} is NoParams.
NoParams ==
  [gdes |-> Undefined, wallet |-> Undefined,
   customerFirstName |-> Undefined, customerLastName |-> Undefined]

\* A facade call: the method, and its arguments (params for the methods that
\* take an object, a and b for those that take one or two values).
FacadeCall(name, params, a, b) ==
  [name |-> name, params |-> params, a |-> a, b |-> b]

\* One check made by a facade, in the order of the code: what was checked
\* and the error it threw, if any.
Check(fn, val, max, obj, fields, error) ==
  [fn |-> fn, val |-> val, max |-> max, obj |-> obj, fields |-> fields,
   error |-> error]

CheckRequired(obj, fields) ==
  Check("validateRequired", Undefined, Undefined, obj, fields,
        validateRequired(obj, fields))

CheckAmount(amount, max) ==
  Check("validateAmount", amount, max, NoParams, <<>>, validateAmount(amount, max))

CheckWallet(wallet) ==
  Check("validateWallet", wallet, Undefined, NoParams, <<>>, validateWallet(wallet))

\* if (!id) throw new BazikValidationError("<what> is required.")
CheckId(what, id) ==
  Check(what, id, Undefined, NoParams, <<>>,
        IF ~Truthy(id)
          THEN Some(BazikValidationError(what \o " is required.", None))
          ELSE None)

Moncash == <<"m", "o", "n", "c", "a", "s", "h">>

Natcash == <<"n", "a", "t", "c", "a", "s", "h">>

\* Mutant: any provider that is not empty is accepted.
CheckProviderTruthy(provider) ==
  Check("provider", provider, Undefined, NoParams, <<>>,
        IF ~Truthy(provider)
          THEN Some(BazikValidationError(
                 "Invalid provider \"" \o ToStr(provider)
                   \o "\". Must be \"moncash\" or \"natcash\".", None))
          ELSE None)

\* if (!["moncash", "natcash"].includes(provider)) throw ...
CheckProvider(provider) ==
  Check("provider", provider, Undefined, NoParams, <<>>,
        IF provider \notin {Str(Moncash), Str(Natcash)}
          THEN Some(BazikValidationError(
                 "Invalid provider \"" \o ToStr(provider)
                   \o "\". Must be \"moncash\" or \"natcash\".", None))
          ELSE None)

PayoutFields == <<"gdes", "wallet", "customerFirstName", "customerLastName">>

\* Mutant: the payout methods apply the MonCash maximum as well.
PayoutChecksCapped(params) ==
  << CheckRequired(params, PayoutFields),
     CheckAmount(params.gdes, Num(MAX_MONCASH_AMOUNT)),
     CheckWallet(params.wallet) >>

\* Mutant: the payout methods do not check the wallet.
PayoutChecksWithoutWallet(params) ==
  << CheckRequired(params, PayoutFields),
     CheckAmount(params.gdes, Undefined) >>

\* withdraw, transfers.moncash and transfers.natcash make the same checks.
PayoutChecks(params) ==
  << CheckRequired(params, PayoutFields),
     CheckAmount(params.gdes, Undefined),
     CheckWallet(params.wallet) >>

\* The checks a facade makes before it calls _request, in order.
FacadeChecks(in) ==
  CASE in.name = "payments.create" ->
         << CheckRequired(in.params, <<"gdes">>),
            CheckAmount(in.params.gdes, Num(MAX_MONCASH_AMOUNT)) >>
    [] in.name = "payments.verify" -> << CheckId("orderId", in.a) >>
    [] in.name = "payments.withdraw" -> PayoutChecks(in.params)
    [] in.name = "transfers.checkCustomer" -> << CheckWallet(in.a) >>
    [] in.name = "transfers.moncash" -> PayoutChecks(in.params)
    [] in.name = "transfers.natcash" -> PayoutChecks(in.params)
    [] in.name = "transfers.getStatus" -> << CheckId("transactionId", in.a) >>
    [] in.name = "transfers.getQuote" ->
         << CheckAmount(in.a, Undefined), CheckProvider(in.b) >>
    [] in.name = "payments.getBalance" -> << >>
    [] in.name = "wallet.getBalance" -> << >>

\* Mutant: the balance is asked for with POST.
GetBalancePosts(path) == [method |-> "POST", path |-> path, body |-> None]

\* The _request arguments of the two getBalance methods: "GET" and the path,
\* no body.
GetBalance(path) == [method |-> "GET", path |-> path, body |-> None]

\* The _request arguments of a facade whose checks have passed.
FacadeDescriptor(in) ==
  CASE in.name = "payments.create" ->
         [method |-> "POST", path |-> "/moncash/token", body |-> Some(in.params)]
    [] in.name = "payments.verify" ->
         [method |-> "GET", path |-> "/order/" \o EncodeURIComponent(in.a),
          body |-> None]
    [] in.name = "payments.withdraw" ->
         [method |-> "POST", path |-> "/moncash/withdraw", body |-> Some(in.params)]
    [] in.name = "transfers.checkCustomer" ->
         [method |-> "POST", path |-> "/moncash/customers/status",
          body |-> Some([wallet |-> in.a])]
    [] in.name = "transfers.moncash" ->
         [method |-> "POST", path |-> "/moncash/transfers", body |-> Some(in.params)]
    [] in.name = "transfers.natcash" ->
         [method |-> "POST", path |-> "/natcash/transfers", body |-> Some(in.params)]
    [] in.name = "transfers.getStatus" ->
         [method |-> "GET", path |-> "/transfers/" \o EncodeURIComponent(in.a),
          body |-> None]
    [] in.name = "transfers.getQuote" ->
         [method |-> "POST", path |-> "/transfers/quote",
          body |-> Some([amount |-> in.a, provider |-> in.b])]
    [] in.name = "payments.getBalance" -> GetBalance("/balance")
    [] in.name = "wallet.getBalance" -> GetBalance("/wallet")

\* A facade call up to its _request: the checks made (up to and including
\* the first that threw), the error thrown, or the _request arguments.
RunFacade(in) ==
  LET cs == FacadeChecks(in)
      failing == {i \in DOMAIN cs : cs[i].error # None}
      stop == CHOOSE i \in failing : \A j \in failing : i <= j
  IN IF failing = {}
       THEN [checks |-> cs, error |-> None, desc |-> Some(FacadeDescriptor(in))]
       ELSE [checks |-> SubSeq(cs, 1, stop), error |-> cs[stop].error,
             desc |-> None]

\* ---- the inputs of the facades ---------------------------------------------
Digits3 == <<"1", "2", "3">>

Digits7 == <<"1", "2", "3", "4", "5", "6", "7">>

Digits8 == <<"4", "7", "5", "5", "6", "6", "7", "7">>

Digits9 == Digits8 \o <<"0">>

Digits10 == Digits8 \o <<"0", "1">>

Digits11 == <<"5", "0", "9">> \o Digits8

Digits12 == Digits11 \o <<"9">>

\* Values given as a wallet: not a string, digits of every length around 8
\* and 11, and texts of length 8, 9 and 11 with a character that is no digit.
Wallets ==
  { Undefined, Null, Num(47556677), Str(<<>>),
    Str(Digits3), Str(Digits7), Str(Digits8), Str(Digits9), Str(Digits10),
    Str(Digits11), Str(Digits12),
    Str(Digits7 \o <<"a">>), Str(<<" ">> \o Digits7), Str(Digits8 \o <<" ">>),
    Str(<<"+">> \o Digits10) }

\* Values given as an amount: not a number, not finite, negative, zero,
\* positive, and around the MonCash maximum.
Amounts ==
  { Undefined, Null, False, Str(<<>>), Str(<<"5", "0", "0">>), NaN, Infinity,
    MinusInfinity, Num(-100), Num(0), Num(1), Num(MAX_MONCASH_AMOUNT),
    Num(MAX_MONCASH_AMOUNT + 1), Num(80000) }

FirstNames == {Undefined, Str(<<"A">>)}

LastNames == {Str(<<>>), Str(<<"B">>)}

Ids == {Undefined, Null, Str(<<>>), Num(0), Str(<<"T", "R", "F", "/", "1">>), Num(7)}

Providers == {Undefined, Str(<<>>), Str(Moncash), Str(Natcash),
              Str(<<"p", "a", "y", "p", "a", "l">>)}

Payout(g, w, f, l) ==
  [gdes |-> g, wallet |-> w, customerFirstName |-> f, customerLastName |-> l]

\* The params of a payout: every amount with a valid wallet, every wallet
\* with a valid amount, and every combination of absent and present fields.
PayoutParams ==
  {Payout(g, Str(Digits8), Str(<<"A">>), Str(<<"B">>)) : g \in Amounts}
    \cup {Payout(Num(1), w, Str(<<"A">>), Str(<<"B">>)) : w \in Wallets}
    \cup {Payout(g, w, f, l) : g \in {Undefined, Num(0)},
                               w \in {Undefined, Str(Digits8)},
                               f \in FirstNames, l \in LastNames}
    \cup {Payout(Num(80000), Str(Digits11), Str(<<"A">>), Str(<<"B">>))}

FacadeInputs ==
  {FacadeCall("payments.create", [NoParams EXCEPT !.gdes = g], Undefined, Undefined) :
      g \in Amounts}
    \cup {FacadeCall(n, NoParams, id, Undefined) :
            n \in {"payments.verify", "transfers.getStatus"}, id \in Ids}
    \cup {FacadeCall(n, p, Undefined, Undefined) :
            n \in {"payments.withdraw", "transfers.moncash", "transfers.natcash"},
            p \in PayoutParams}
    \cup {FacadeCall("transfers.checkCustomer", NoParams, w, Undefined) :
            w \in Wallets}
    \cup {FacadeCall("transfers.getQuote", NoParams, a, p) :
            a \in Amounts, p \in Providers}
    \cup {FacadeCall(n, NoParams, Undefined, Undefined) :
            n \in {"payments.getBalance", "wallet.getBalance"}}

\* ---- the client's state ---------------------------------------------------
VARIABLES
  token,           \* #token: None until the first successful authentication
  tokenExpiresAt,  \* #tokenExpiresAt: Some(0) at construction, then expires_at
  autoRefresh,     \* #autoRefresh, fixed at construction
  onTokenRefresh,  \* #onTokenRefresh: "none", or "set" when a hook was given
  now,             \* Date.now()
  config,          \* the argument of the constructor
  constructionError, \* None, or Some(error) when the constructor threw
  calls,           \* the outstanding calls: position, locals, transport log
  started,         \* number of calls started so far
  poll             \* the outstanding payments.waitForCompletion, if any

vars == <<token, tokenExpiresAt, autoRefresh, onTokenRefresh, config, constructionError, now, calls, started, poll>>

\* A call that has not started.  op is the public method that was called, pc
\* the await it is suspended at, desc the _request arguments, sent the
\* transport invocations it made so far, first the endpoint's answer to the
\* original exchange, retry its answer to the retry, last the latest answer
\* the call received from any endpoint, result its outcome, tok0 (of a
\* getToken call) the token that was stored when it was called, hooks the
\* invocations of onTokenRefresh made by the call, facade the facade call
\* that led to it and checks the input checks that facade made, answered
\* the number of its transport invocations that were answered.
IdleCall ==
  [op |-> "idle", pc |-> "idle", desc |-> None, sent |-> <<>>, first |-> None,
   retry |-> None, last |-> None, result |-> NoResult, tok0 |-> None,
   hooks |-> <<>>, facade |-> None, checks |-> <<>>, answered |-> 0]

\* A payments.waitForCompletion(orderId, options): where it is, its locals
\* intervalMs, timeoutMs and deadline, and the time at which its sleep is over
\* (wakeAt).  Its calls of verify are logged: verifies their number,
\* calledAt the clock at the last one, seen the status of each payment that
\* verify returned.
IdlePoll ==
  [pc |-> "idle", orderId |-> Undefined, intervalMs |-> 0, timeoutMs |-> 0,
   deadline |-> 0, wakeAt |-> 0, verifies |-> 0, calledAt |-> 0,
   seen |-> <<>>, result |-> NoResult]

\* ---- the Bazik client ----------------------------------------------------
\* The exchange authenticate() issues.
AuthRequest ==
  [method |-> "POST", path |-> "/token", auth |-> None,
   body |-> Some(Stringify("credentials"))]

\* The exchange _request issues for (method, path, body); t is the value put
\* after "Bearer " in the Authorization header.
EndpointRequest(desc, t) ==
  [method |-> desc.method, path |-> desc.path, auth |-> t,
   body |-> IF desc.body = None THEN None ELSE Some(Stringify(desc.body[1]))]

\* Mutant: a 200 answer is taken as a success without looking for the token.
AuthenticateOutcomeIgnoresMissingToken(status, data) ==
  IF status = 429
    THEN BazikRateLimitError(
           "Too many authentication attempts. Please wait before retrying.",
           Some(data))
  ELSE IF status = 401
    THEN BazikAuthError(
           OrElse(ErrField(data, "message"), Some("Invalid credentials."))[1],
           Some(status), ErrField(data, "code"), ErrField(data, "details"))
  ELSE IF status # 200
    THEN BazikError(
           OrElse(ErrField(data, "message"), Some("Authentication failed."))[1],
           Some(status), ErrField(data, "code"), Some(data))
  ELSE Ok(data)

\* Mutant: the catch-all test comes first, so 401 and 429 end as the generic
\* error.
AuthenticateOutcomeGenericFirst(status, data) ==
  IF status # 200 \/ Falsy(data.token)
    THEN BazikError(
           OrElse(ErrField(data, "message"), Some("Authentication failed."))[1],
           Some(status), ErrField(data, "code"), Some(data))
  ELSE Ok(data)

\* Mutant: every answer that is not a success is reported as BazikAuthError.
AuthenticateOutcomeAlwaysAuthError(status, data) ==
  IF status # 200 \/ Falsy(data.token)
    THEN BazikAuthError(
           OrElse(ErrField(data, "message"), Some("Invalid credentials."))[1],
           Some(status), ErrField(data, "code"), ErrField(data, "details"))
  ELSE Ok(data)

\* authenticate(): what the response (status, data) is turned into.
AuthenticateOutcome(status, data) ==
  IF status = 429
    THEN BazikRateLimitError(
           "Too many authentication attempts. Please wait before retrying.",
           Some(data))
  ELSE IF status = 401
    THEN BazikAuthError(
           OrElse(ErrField(data, "message"), Some("Invalid credentials."))[1],
           Some(status), ErrField(data, "code"), ErrField(data, "details"))
  ELSE IF status # 200 \/ Falsy(data.token)
    THEN BazikError(
           OrElse(ErrField(data, "message"), Some("Authentication failed."))[1],
           Some(status), ErrField(data, "code"), Some(data))
  ELSE Ok(data)

\* Mutant: the comparison with the expiry is not strict.
IsTokenValidAtInclusive(tok, exp, t) ==
  IF tok = None THEN FALSE
  ELSE IF exp = None THEN FALSE
  ELSE t <= exp[1] - TOKEN_REFRESH_MARGIN_MS

\* isTokenValid(); a comparison with an undefined expiry (NaN) is false.
IsTokenValidAt(tok, exp, t) ==
  IF tok = None THEN FALSE
  ELSE IF exp = None THEN FALSE
  ELSE t < exp[1] - TOKEN_REFRESH_MARGIN_MS

isTokenValid == IsTokenValidAt(token, tokenExpiresAt, now)

\* Mutant: getToken() does not authenticate while another call is awaiting
\* an authentication.
GetTokenAuthenticatesSingleFlight ==
  /\ token = None \/ (autoRefresh /\ ~isTokenValid)
  /\ \A c \in Calls : calls[c].pc \notin {"auth", "gtAuth", "reAuth"}

\* Mutant: with auto-refresh enabled getToken() always authenticates.
GetTokenAlwaysRefreshes ==
  token = None \/ autoRefresh

\* Mutant: a missing token is renewed only when auto-refresh is enabled.
GetTokenOnlyAutoRefreshes ==
  autoRefresh /\ ~isTokenValid

\* Mutant: a stale token is renewed whatever the auto-refresh setting.
GetTokenIgnoresSetting ==
  token = None \/ ~isTokenValid

\* getToken(): whether it authenticates before returning the token.
GetTokenAuthenticates ==
  token = None \/ (autoRefresh /\ ~isTokenValid)

\* Message of the generic error for a response without message fields.
RequestFailedMessage(status) == "Request failed with status " \o ToString(status)

\* _request: the error thrown for a 401 that is not retried.
UnauthorizedError(data) ==
  BazikAuthError(OrElse(ErrField(data, "message"), Some("Unauthorized."))[1],
                 Some(401), ErrField(data, "code"), Some(data))

\* Mutant: a 400 answer is reported as the client's validation error.
ErrorStatusOutcomeValidationOn400(status, data) ==
  IF status = 402
    THEN BazikInsufficientFundsError(
           OrElse(ErrField(data, "message"), Some("Insufficient funds."))[1],
           Some(data))
  ELSE IF status = 429
    THEN BazikRateLimitError(
           OrElse(ErrField(data, "message"), Some("Rate limit exceeded."))[1],
           Some(data))
  ELSE IF status = 400
    THEN BazikValidationError(
           OrElse(ErrField(data, "message"),
                  OrElse(data.message, Some(RequestFailedMessage(status))))[1],
           Some(data))
  ELSE IF status >= 400
    THEN BazikError(
           OrElse(ErrField(data, "message"),
                  OrElse(data.message, Some(RequestFailedMessage(status))))[1],
           Some(status), ErrField(data, "code"), Some(data))
  ELSE Ok(data)

\* Mutant: the catch-all test for status >= 400 comes first.
ErrorStatusOutcomeGenericFirst(status, data) ==
  IF status >= 400
    THEN BazikError(
           OrElse(ErrField(data, "message"),
                  OrElse(data.message, Some("Request failed")))[1],
           Some(status), ErrField(data, "code"), Some(data))
  ELSE Ok(data)

\* _request: what a first response other than 401 is turned into.
ErrorStatusOutcome(status, data) ==
  IF status = 402
    THEN BazikInsufficientFundsError(
           OrElse(ErrField(data, "message"), Some("Insufficient funds."))[1],
           Some(data))
  ELSE IF status = 429
    THEN BazikRateLimitError(
           OrElse(ErrField(data, "message"), Some("Rate limit exceeded."))[1],
           Some(data))
  ELSE IF status >= 400
    THEN BazikError(
           OrElse(ErrField(data, "message"),
                  OrElse(data.message, Some(RequestFailedMessage(status))))[1],
           Some(status), ErrField(data, "code"), Some(data))
  ELSE Ok(data)

\* Mutant: the 401 branch defers to the freshness check, as getToken() does.
FirstResponseDefersToFreshness(status, data) ==
  IF status = 401
    THEN IF autoRefresh /\ ~isTokenValid
           THEN [kind |-> "reauth"]
           ELSE UnauthorizedError(data)
    ELSE ErrorStatusOutcome(status, data)

\* Mutant: a rate-limited call is refreshed and retried too.
FirstResponseRetriesOn429(status, data) ==
  IF status \in {401, 429}
    THEN IF autoRefresh
           THEN [kind |-> "reauth"]
           ELSE UnauthorizedError(data)
    ELSE ErrorStatusOutcome(status, data)

\* Mutant: the 401 branch does not look at the autoRefresh setting.
FirstResponseAlwaysRetries(status, data) ==
  IF status = 401
    THEN [kind |-> "reauth"]
    ELSE ErrorStatusOutcome(status, data)

\* _request: what the first response is turned into; "reauth" stands for the
\* refresh-and-retry branch.
FirstResponseOutcome(status, data) ==
  IF status = 401
    THEN IF autoRefresh
           THEN [kind |-> "reauth"]
           ELSE UnauthorizedError(data)
    ELSE ErrorStatusOutcome(status, data)

\* Mutant: the test of the retry's status is inverted.
RetryOutcomeInverted(status, data) ==
  IF status # 401
    THEN BazikAuthError("Authentication failed after token refresh.",
                        Some(401), Some("unauthorized"), Some(data))
    ELSE Ok(data)

\* Mutant: a second 401 is reported as the generic error.
RetryOutcomeGeneric(status, data) ==
  IF status = 401
    THEN BazikError("Authentication failed after token refresh.",
                    Some(401), ErrField(data, "code"), Some(data))
    ELSE Ok(data)

\* _request: what the retry's response is turned into.
RetryOutcome(status, data) ==
  IF status = 401
    THEN BazikAuthError("Authentication failed after token refresh.",
                        Some(401), Some("unauthorized"), Some(data))
    ELSE Ok(data)

\* ---- initial state -------------------------------------------------------
\* The argument of the constructor: given is FALSE for `new Bazik()`; hook
\* is "set" when onTokenRefresh is a function and "none" when it is absent.
Config(given, userID, secretKey, refresh, hook) ==
  [given |-> given, userID |-> userID, secretKey |-> secretKey,
   autoRefresh |-> refresh, onTokenRefresh |-> hook]

UserID == Str(<<"b", "z", "k">>)

SecretKey == Str(<<"s", "k">>)

\* No argument, {}, a missing or empty identifier, a missing secret; and
\* the complete configurations, with autoRefresh absent, true or false and
\* with or without hook.
Configs ==
  { Config(FALSE, Undefined, Undefined, Undefined, "none"),
    Config(TRUE, Undefined, Undefined, Undefined, "none"),
    Config(TRUE, Undefined, SecretKey, Undefined, "none"),
    Config(TRUE, Str(<<>>), SecretKey, Undefined, "none"),
    Config(TRUE, UserID, Undefined, False, "set") }
    \cup { Config(TRUE, UserID, SecretKey, r, h) :
             r \in {Undefined, True, False}, h \in {"none", "set"} }

\* Mutant: the test of the arguments requires only one of the two.
ConstructorThrowsIfBothMissing(cfg) ==
  ~cfg.given \/ (~Truthy(cfg.userID) /\ ~Truthy(cfg.secretKey))

\* constructor: !config || !config.userID || !config.secretKey
ConstructorThrows(cfg) ==
  ~cfg.given \/ ~Truthy(cfg.userID) \/ ~Truthy(cfg.secretKey)

\* constructor: config.autoRefresh !== false
AutoRefreshOf(cfg) == cfg.autoRefresh # False

\* The state after `new Bazik(config)`.  When the constructor throws there
\* is no client: the fields keep their initial values and no method can be
\* called.
Init ==
  /\ config \in Configs
  /\ constructionError =
       IF ConstructorThrows(config)
         THEN Some(BazikValidationError(
                "Both userID and secretKey are required to initialize the Bazik client.",
                None))
         ELSE None
  /\ token = None
  /\ tokenExpiresAt = Some(0)
  /\ autoRefresh = AutoRefreshOf(config)
  /\ onTokenRefresh = config.onTokenRefresh
  /\ now = 0
  /\ calls = [c \in Calls |-> IdleCall]
  /\ started = 0
  /\ poll = IdlePoll

\* ---- the calls ------------------------------------------------------------
\* The code a call runs from its start to its first await.  authenticate()
\* issues the /token exchange; getToken() and _request() first decide whether
\* to authenticate, and with a usable token getToken() returns it and
\* _request() issues the endpoint exchange with it.
Entered(op, desc) ==
  LET base == [IdleCall EXCEPT !.op = op, !.desc = desc,
                               !.tok0 = IF op = "getToken" THEN token ELSE None]
  IN IF op = "authenticate"
       THEN [base EXCEPT !.pc = "auth", !.sent = <<AuthRequest>>]
     ELSE IF GetTokenAuthenticates
       THEN [base EXCEPT !.pc = "gtAuth", !.sent = <<AuthRequest>>]
     ELSE IF op = "getToken"
       THEN [base EXCEPT !.pc = "done", !.result = Ok(token)]
     ELSE [base EXCEPT !.pc = "orig",
                       !.sent = <<EndpointRequest(desc[1], token)>>]

Begin(c, op, desc) ==
  /\ constructionError = None
  /\ calls[c].pc = "idle"
  /\ started < MaxOps
  /\ started' = started + 1
  /\ calls' = [calls EXCEPT ![c] = Entered(op, desc)]
  /\ UNCHANGED <<token, tokenExpiresAt, autoRefresh, onTokenRefresh, config, constructionError, poll, now>>

\* A facade method is called: its checks run, and either one of them throws,
\* which ends the call, or _request is called with the facade's arguments.
CallFacade(c, inputs) ==
  \E in \in inputs :
    LET run == RunFacade(in)
    IN /\ constructionError = None
       /\ calls[c].pc = "idle"
       /\ started < MaxOps
       /\ started' = started + 1
       /\ calls' = [calls EXCEPT ![c] =
             IF run.error # None
               THEN [IdleCall EXCEPT !.op = "facade", !.pc = "done",
                                     !.facade = Some(in), !.checks = run.checks,
                                     !.result = run.error[1]]
               ELSE [Entered("_request", run.desc) EXCEPT
                       !.facade = Some(in), !.checks = run.checks]]
       /\ UNCHANGED <<token, tokenExpiresAt, autoRefresh, onTokenRefresh, config, constructionError, poll, now>>

CallAuthenticate(c) == Begin(c, "authenticate", None)

CallGetToken(c) == Begin(c, "getToken", None)

CallRequest(c, descs) == \E d \in descs : Begin(c, "_request", Some(d))

\* isTokenValid() is synchronous: it is called and returns in one step.
CallIsTokenValid(c) ==
  /\ constructionError = None
  /\ calls[c].pc = "idle"
  /\ started < MaxOps
  /\ started' = started + 1
  /\ calls' = [calls EXCEPT ![c] =
        [IdleCall EXCEPT !.op = "isTokenValid", !.pc = "done",
                         !.result = Ok(isTokenValid)]]
  /\ UNCHANGED <<token, tokenExpiresAt, autoRefresh, onTokenRefresh, config, constructionError, poll, now>>

\* Mutant: the hook is invoked before the credential is assigned.
StoredAtHookBefore(old, new) == old

\* The token that is stored while onTokenRefresh runs, old being the token
\* stored before the answer and new the token of the answer: the assignment
\* of #token precedes the invocation.
StoredAtHook(old, new) == new

\* One invocation of onTokenRefresh: its argument, the token stored while it
\* runs, and whether it threw.
HookCall(data, stored, threw) ==
  [arg |-> data.token, stored |-> stored, threw |-> threw]

\* Mutant: after the re-authentication the call starts over with the original
\* exchange instead of issuing the one retry.
AfterAuthenticateStartsOver(pc) ==
  CASE pc = "auth" -> "done"
    [] pc = "gtAuth" -> "gotToken"
    [] pc = "reAuth" -> "gotToken"

\* Where a call continues once the authenticate() it awaits has returned.
AfterAuthenticate(pc) ==
  CASE pc = "auth" -> "done"
    [] pc = "gtAuth" -> "gotToken"
    [] pc = "reAuth" -> "reauthed"

\* The /token exchange of call c is answered: the rest of authenticate().
\* An error ends the call (getToken and _request do not catch it); otherwise
\* the credential is stored and the hook, if any, is invoked: it returns or
\* throws, and what it throws ends the call as well.
AuthResponse(c, answers) ==
  \E r \in answers, hookThrows \in BOOLEAN :
    LET cl == calls[c]
        out == AuthenticateOutcome(r.status, r.data)
        got == [cl EXCEPT !.last = Some(r), !.answered = @ + 1]
    IN /\ cl.pc \in {"auth", "gtAuth", "reAuth"}
       /\ IF out.kind = "error"
            THEN /\ ~hookThrows
                 /\ calls' = [calls EXCEPT ![c] =
                       [got EXCEPT !.pc = "done", !.result = out]]
                 /\ UNCHANGED <<token, tokenExpiresAt>>
            ELSE /\ hookThrows => onTokenRefresh = "set"
                 /\ token' = r.data.token
                 /\ tokenExpiresAt' = r.data.expires_at
                 /\ LET told ==
                          IF onTokenRefresh = "set"
                            THEN [got EXCEPT !.hooks = Append(@,
                                    HookCall(r.data,
                                             StoredAtHook(token, r.data.token),
                                             hookThrows))]
                            ELSE got
                    IN calls' = [calls EXCEPT ![c] =
                         IF hookThrows
                           THEN [told EXCEPT !.pc = "done", !.result = Thrown("hook")]
                         ELSE IF cl.pc = "auth"
                           THEN [told EXCEPT !.pc = "done", !.result = out]
                         ELSE [told EXCEPT !.pc = AfterAuthenticate(cl.pc)]]
       /\ UNCHANGED <<autoRefresh, onTokenRefresh, config, constructionError, poll, now, started>>

\* getToken() resumes after its authenticate(): it returns the token stored
\* now; _request() then issues the endpoint exchange with it.
GetTokenResume(c) ==
  LET cl == calls[c]
  IN /\ cl.pc = "gotToken"
     /\ calls' = [calls EXCEPT ![c] =
          IF cl.op = "getToken"
            THEN [cl EXCEPT !.pc = "done", !.result = Ok(token)]
            ELSE [cl EXCEPT !.pc = "orig",
                            !.sent = Append(@, EndpointRequest(cl.desc[1], token))]]
     /\ UNCHANGED <<token, tokenExpiresAt, autoRefresh, onTokenRefresh, config, constructionError, poll, now, started>>

\* The original exchange is answered.
OrigResponse(c, answers) ==
  \E r \in answers :
    LET cl == calls[c]
        out == FirstResponseOutcome(r.status, r.data)
        got == [cl EXCEPT !.first = Some(r), !.last = Some(r), !.answered = @ + 1]
    IN /\ cl.pc = "orig"
       /\ calls' = [calls EXCEPT ![c] =
            IF out.kind = "reauth"
              THEN [got EXCEPT !.pc = "reAuth", !.sent = Append(@, AuthRequest)]
              ELSE [got EXCEPT !.pc = "done", !.result = out]]
       /\ UNCHANGED <<token, tokenExpiresAt, autoRefresh, onTokenRefresh, config, constructionError, poll, now, started>>

\* _request() resumes after the re-authentication: the retry carries the
\* token stored now.
ReauthResume(c) ==
  LET cl == calls[c]
  IN /\ cl.pc = "reauthed"
     /\ calls' = [calls EXCEPT ![c] =
          [cl EXCEPT !.pc = "retry",
                     !.sent = Append(@, EndpointRequest(cl.desc[1], token))]]
     /\ UNCHANGED <<token, tokenExpiresAt, autoRefresh, onTokenRefresh, config, constructionError, poll, now, started>>

\* The retry is answered.
RetryResponse(c, answers) ==
  \E r \in answers :
    LET cl == calls[c]
        got == [cl EXCEPT !.retry = Some(r), !.last = Some(r), !.answered = @ + 1]
    IN /\ cl.pc = "retry"
       /\ calls' = [calls EXCEPT ![c] =
            [got EXCEPT !.pc = "done", !.result = RetryOutcome(r.status, r.data)]]
       /\ UNCHANGED <<token, tokenExpiresAt, autoRefresh, onTokenRefresh, config, constructionError, poll, now, started>>

\* The outstanding exchange of call c fails in the transport (fetch rejects:
\* network error, or abort when the timeout elapses).  Nothing catches it.
TransportFailure(c) ==
  LET cl == calls[c]
  IN /\ cl.pc \in {"auth", "gtAuth", "reAuth", "orig", "retry"}
     /\ calls' = [calls EXCEPT ![c] =
          [cl EXCEPT !.pc = "done", !.result = Thrown("fetch")]]
     /\ UNCHANGED <<token, tokenExpiresAt, autoRefresh, onTokenRefresh, config, constructionError, poll, now, started>>

\* The caller has taken the outcome of call c.
Return(c) ==
  /\ calls[c].pc = "done"
  /\ calls' = [calls EXCEPT ![c] = IdleCall]
  /\ UNCHANGED <<token, tokenExpiresAt, autoRefresh, onTokenRefresh, config, constructionError, poll, now, started>>

\* Time passes.
Tick ==
  /\ constructionError = None
  /\ now < MaxTicks * TickMs
  /\ now' = now + TickMs
  /\ UNCHANGED <<token, tokenExpiresAt, autoRefresh, onTokenRefresh, config, constructionError, poll, calls, started>>

\* One step of call c, the transport answering from the given sets.
Step(c, descs, authAnswers, endpointAnswers) ==
  \/ CallAuthenticate(c)
  \/ CallGetToken(c)
  \/ CallRequest(c, descs)
  \/ CallIsTokenValid(c)
  \/ AuthResponse(c, authAnswers)
  \/ GetTokenResume(c)
  \/ OrigResponse(c, endpointAnswers)
  \/ ReauthResume(c)
  \/ RetryResponse(c, endpointAnswers)
  \/ TransportFailure(c)
  \/ Return(c)

\* One caller: calls are made one after the other, each started when the
\* outcome of the one before has been taken.
Next == Step("A", Descriptors, AuthResponses, EndpointResponses) \/ Tick

Spec == Init /\ [][Next]_vars

\* ---- concurrent callers ---------------------------------------------------
\* The answers of the transport when two calls are outstanding together: one
\* answer of each kind the client tells apart.
ConcAuthResponses ==
  { Response(200, TokenBody("tokA", Some(2 * TOKEN_REFRESH_MARGIN_MS))),
    Response(200, TokenBody("tokB", Some(TOKEN_REFRESH_MARGIN_MS))),
    Response(401, ErrFull) }

ConcEndpointResponses ==
  { Response(200, NoFields), Response(401, ErrFull), Response(500, NoFields) }

ConcDescriptors == {d \in Descriptors : d.method = "POST"}

\* Independent call sites: any call may start while another is outstanding,
\* and their continuations interleave at every await.  A credential that is
\* stale is one the server issued with an expiry within the margin (tokB).
ConcNext ==
  \E c \in Calls :
    Step(c, ConcDescriptors, ConcAuthResponses, ConcEndpointResponses)

ConcSpec == Init /\ [][ConcNext]_vars

\* What call c does without its caller: an outstanding exchange is answered
\* or fails (fetch is aborted when the timeout elapses), and a continuation
\* that became runnable runs.
Advance(c) ==
  \/ AuthResponse(c, ConcAuthResponses)
  \/ GetTokenResume(c)
  \/ OrigResponse(c, ConcEndpointResponses)
  \/ ReauthResume(c)
  \/ RetryResponse(c, ConcEndpointResponses)
  \/ TransportFailure(c)

\* Every exchange ends within the timeout and the event loop runs every
\* runnable continuation.
FairConcSpec == ConcSpec /\ \A c \in Calls : WF_vars(Advance(c))

\* ---- the facades' callers ---------------------------------------------------
\* What an endpoint answers to a facade's caller: one answer of each kind,
\* a status below 400 whose body is not empty, and a server's 400.
FacadeEndpointResponses ==
  ConcEndpointResponses \cup {Response(204, ErrFull), Response(400, ErrValidation)}

\* What /token answers to a facade's caller: as above, and a 400.
FacadeAuthResponses ==
  ConcAuthResponses \cup {Response(400, ErrValidation)}

\* One caller of the facades and of the client's own methods.
FacadeNext ==
  \/ CallFacade("A", FacadeInputs)
  \/ Step("A", ConcDescriptors, FacadeAuthResponses, FacadeEndpointResponses)

FacadeSpec == Init /\ [][FacadeNext]_vars

\* ---- payments.waitForCompletion ----------------------------------------------
\* const { intervalMs = 5000, timeoutMs = 300_000 } = options
DefaultIntervalMs == 5000

DefaultTimeoutMs == 300000

\* The value of a destructured option: the default when it is undefined.
OptionOr(v, default) == IF v = Undefined THEN default ELSE v.n

\* An order id that verify accepts.
OrderId == Str(<<"T", "R", "F", "/", "1">>)

PollCall(id, i, t) == [orderId |-> id, intervalMs |-> i, timeoutMs |-> t]

\* The calls of the helper: intervals of 1 ms and 2 ms against a timeout of
\* 3 ms, a timeout of 0, each of the two options left to its default, and an
\* order id that verify rejects.
PollInputs ==
  { PollCall(OrderId, Num(1), Num(3)), PollCall(OrderId, Num(2), Num(3)),
    PollCall(OrderId, Num(1), Num(0)), PollCall(OrderId, Undefined, Num(3)),
    PollCall(OrderId, Num(150000), Undefined),
    PollCall(Undefined, Num(1), Num(3)), PollCall(Undefined, Num(1), Num(0)) }

\* What GET /order/:id answers: a payment that is pending, successful or
\* failed, a body without status, and the error statuses.
PollEndpointResponses ==
  { Response(200, Payment("pending")), Response(200, Payment("successful")),
    Response(200, Payment("failed")), Response(200, NoFields),
    Response(401, ErrFull), Response(500, NoFields) }

\* Mutant: the timeout error carries the status 408.
TimeoutErrorWithStatus(timeoutMs) ==
  BazikError("Payment verification timed out after " \o ToString(timeoutMs) \o "ms.",
             Some(408), Some("timeout"), None)

\* new BazikError(`Payment verification timed out after ${timeoutMs}ms.`,
\*                null, "timeout")
TimeoutError(timeoutMs) ==
  BazikError("Payment verification timed out after " \o ToString(timeoutMs) \o "ms.",
             None, Some("timeout"), None)

\* Mutant: only a successful payment ends the polling.
StillPendingUnlessSuccessful(payment) == payment.status # Some("successful")

\* payment.status !== "pending" is false
StillPending(payment) == payment.status = Some("pending")

\* The top of the loop, run by helper p with verify's call idle: while
\* Date.now() < deadline it calls verify, which throws for a missing order id
\* and otherwise runs _request up to its first await; after the deadline the
\* helper throws the timeout error.
LoopTop(p) ==
  LET run == RunFacade(FacadeCall("payments.verify", NoParams, p.orderId, Undefined))
      called == [p EXCEPT !.verifies = @ + 1, !.calledAt = now]
  IN IF ~(now < p.deadline)
       THEN /\ poll' = [p EXCEPT !.pc = "done", !.result = TimeoutError(p.timeoutMs)]
            /\ calls' = [calls EXCEPT !["A"] = IdleCall]
     ELSE IF run.error # None
       THEN /\ poll' = [called EXCEPT !.pc = "done", !.result = run.error[1]]
            /\ calls' = [calls EXCEPT !["A"] = IdleCall]
     ELSE /\ poll' = [called EXCEPT !.pc = "verify"]
          /\ calls' = [calls EXCEPT !["A"] =
                [Entered("_request", run.desc) EXCEPT
                   !.facade = Some(FacadeCall("payments.verify", NoParams,
                                              p.orderId, Undefined)),
                   !.checks = run.checks]]

\* payments.waitForCompletion(orderId, options) is called: the options are
\* destructured, the deadline is computed and the loop is entered.
CallWaitForCompletion ==
  \E in \in PollInputs :
    LET interval == OptionOr(in.intervalMs, DefaultIntervalMs)
        timeout == OptionOr(in.timeoutMs, DefaultTimeoutMs)
    IN /\ constructionError = None
       /\ poll.pc = "idle"
       /\ calls["A"].pc = "idle"
       /\ started < MaxPolls
       /\ started' = started + 1
       /\ LoopTop([IdlePoll EXCEPT !.orderId = in.orderId,
                                   !.intervalMs = interval,
                                   !.timeoutMs = timeout,
                                   !.deadline = now + timeout])
       /\ UNCHANGED <<token, tokenExpiresAt, autoRefresh, onTokenRefresh, config,
                      constructionError, now>>

\* The verify the helper awaits has ended.  What it threw ends the helper; a
\* payment that is not pending is returned; otherwise the helper sleeps for
\* intervalMs.
PollResume ==
  LET cl == calls["A"]
  IN /\ poll.pc = "verify"
     /\ cl.pc = "done"
     /\ calls' = [calls EXCEPT !["A"] = IdleCall]
     /\ poll' =
          IF cl.result.kind # "ok"
            THEN [poll EXCEPT !.pc = "done", !.result = cl.result]
          ELSE IF ~StillPending(cl.result.value)
            THEN [poll EXCEPT !.pc = "done", !.result = cl.result,
                              !.seen = Append(@, cl.result.value.status)]
          ELSE [poll EXCEPT !.pc = "sleep", !.wakeAt = now + poll.intervalMs,
                            !.seen = Append(@, cl.result.value.status)]
     /\ UNCHANGED <<token, tokenExpiresAt, autoRefresh, onTokenRefresh, config,
                    constructionError, now, started>>

\* The sleep is over (not before intervalMs has passed): back to the top of
\* the loop.
PollWake ==
  /\ poll.pc = "sleep"
  /\ now >= poll.wakeAt
  /\ LoopTop(poll)
  /\ UNCHANGED <<token, tokenExpiresAt, autoRefresh, onTokenRefresh, config,
                 constructionError, now, started>>

\* Time passes while the helper awaits verify or sleeps, an interval at a
\* time.  The clock is followed as far as the helper reads it: up to the
\* deadline and to the end of a sleep.
PollTick ==
  /\ poll.pc \in {"verify", "sleep"}
  /\ now < poll.deadline \/ (poll.pc = "sleep" /\ now < poll.wakeAt)
  /\ now' = now + poll.intervalMs
  /\ UNCHANGED <<token, tokenExpiresAt, autoRefresh, onTokenRefresh, config,
                 constructionError, calls, started, poll>>

\* The caller has taken the outcome of the helper.
PollReturn ==
  /\ poll.pc = "done"
  /\ poll' = IdlePoll
  /\ UNCHANGED <<token, tokenExpiresAt, autoRefresh, onTokenRefresh, config,
                 constructionError, now, calls, started>>

\* The steps of the verify call the helper awaits.
PollVerifyStep ==
  \/ AuthResponse("A", ConcAuthResponses)
  \/ GetTokenResume("A")
  \/ OrigResponse("A", PollEndpointResponses)
  \/ ReauthResume("A")
  \/ RetryResponse("A", PollEndpointResponses)
  \/ TransportFailure("A")

\* One caller polling a payment.
PollNext ==
  \/ CallWaitForCompletion
  \/ PollVerifyStep
  \/ PollResume
  \/ PollWake
  \/ PollTick
  \/ PollReturn

PollSpec == Init /\ [][PollNext]_vars

\* Every exchange ends within the timeout, the event loop runs every
\* continuation that became runnable, and time passes.
FairPollSpec ==
  PollSpec /\ WF_vars(PollVerifyStep) /\ WF_vars(PollResume)
           /\ WF_vars(PollWake) /\ WF_vars(PollTick)

\* ---- reading a call's transport log ---------------------------------------
\* The exchanges of a _request call from the original exchange on (without
\* the /token exchange that getToken() may have made before it).
Dispatched(cl) ==
  IF cl.sent # <<>> /\ cl.sent[1].path = "/token" THEN Tail(cl.sent) ELSE cl.sent

\* Number of exchanges with the requested endpoint / with /token.
EndpointExchanges(cl) == Cardinality({i \in DOMAIN cl.sent : cl.sent[i].path # "/token"})

TokenExchanges(cl) == Cardinality({i \in DOMAIN cl.sent : cl.sent[i].path = "/token"})

\* Call c has ended in this step.
Ends(c) == calls[c].pc # "done" /\ calls'[c].pc = "done"

\* ---- C1 ------------------------------------------------------------------
\* C1: with auto-refresh enabled, a 401 answer to the original exchange of a
\* _request makes it call authenticate() at once, whether or not
\* isTokenValid() holds; when that authentication has returned, the same
\* method/path/body is re-issued once with the Authorization header carrying
\* the token stored then (the one the re-authentication delivered); a retry
\* answered with a status below 400 ends the call with the retry's body.  In
\* every state the log of a _request is a prefix of: original, /token, retry.
RetryOnceAfterUnauthorized ==
  /\ [](\A c \in Calls :
          LET cl == calls[c]
              d == Dispatched(cl)
          IN cl.op = "_request" =>
               /\ Len(d) <= 3
               /\ Len(d) >= 2 => d[2] = AuthRequest
               /\ Len(d) = 3 => /\ d[3].path # "/token"
                                /\ [d[3] EXCEPT !.auth = d[1].auth] = d[1])
  /\ [][\A c \in Calls :
          LET cl == calls[c]
              nx == calls'[c]
          IN /\ ( /\ cl.pc = "orig" /\ nx.first # None
                  /\ nx.first[1].status = 401 /\ autoRefresh )
                => /\ nx.pc = "reAuth"
                   /\ nx.sent = Append(cl.sent, AuthRequest)
             /\ (cl.pc = "reAuth" /\ nx.pc = "reauthed")
                => /\ token' = nx.last[1].data.token
                   /\ nx.sent = cl.sent
             /\ (cl.pc = "reauthed" /\ nx # cl)
                => /\ nx.pc = "retry"
                   /\ nx.sent = Append(cl.sent,
                        [method |-> cl.desc[1].method, path |-> cl.desc[1].path,
                         auth |-> token, body |-> Dispatched(cl)[1].body])
                   /\ token = cl.last[1].data.token
             /\ (cl.pc = "retry" /\ nx.retry # None /\ nx.retry[1].status < 400)
                => /\ nx.pc = "done"
                   /\ nx.result = Ok(nx.retry[1].data)
     ]_vars

\* C1 witness: a call whose original exchange carried the still fresh tokA
\* (the clock has not moved, tokA is fresh until the first tick) was answered
\* 401, re-authenticated, retried with the new token tokB and returned the
\* retry's body.
RetryOnceAfterUnauthorizedWitness ==
  \E c \in Calls :
    LET cl == calls[c]
    IN /\ cl.op = "_request" /\ cl.pc = "done" /\ now = 0
       /\ cl.first # None /\ cl.first[1].status = 401
       /\ cl.retry # None /\ cl.retry[1].status = 200
       /\ cl.result = Ok(cl.retry[1].data)
       /\ Len(Dispatched(cl)) = 3
       /\ Dispatched(cl)[1].auth = Some("tokA")
       /\ Dispatched(cl)[3].auth = Some("tokB")

\* ---- C2 ------------------------------------------------------------------
\* C2: when the retry is answered 401 (so the original was, with auto-refresh
\* enabled), the call has ended with BazikAuthError, status 401, code
\* "unauthorized", message "Authentication failed after token refresh.", and
\* its log holds the original, one /token exchange and the retry, nothing more.
SecondUnauthorizedFails ==
  \A c \in Calls :
    LET cl == calls[c]
    IN (cl.retry # None /\ cl.retry[1].status = 401)
       => /\ autoRefresh
          /\ cl.first[1].status = 401
          /\ cl.pc = "done"
          /\ cl.result.kind = "error"
          /\ cl.result.name = "BazikAuthError"
          /\ cl.result.status = Some(401)
          /\ cl.result.code = Some("unauthorized")
          /\ cl.result.message = "Authentication failed after token refresh."
          /\ Len(Dispatched(cl)) = 3
          /\ EndpointExchanges(cl) = 2

\* C2 witness: a call whose original exchange and retry were both answered 401.
SecondUnauthorizedFailsWitness ==
  \E c \in Calls :
    LET cl == calls[c]
    IN /\ cl.pc = "done" /\ autoRefresh
       /\ cl.first # None /\ cl.first[1].status = 401
       /\ cl.retry # None /\ cl.retry[1].status = 401
       /\ cl.result.kind = "error"

\* ---- C3 ------------------------------------------------------------------
\* C3: a call exchanges with its endpoint at most twice; a second exchange
\* exists only with auto-refresh enabled and a first answer of 401; after any
\* other first answer (402, 429, another status >= 400, a status < 400) the
\* call has ended with the original exchange as its only one: no retry, no
\* re-authentication.
RetryOnlyOnceOnlyOn401 ==
  \A c \in Calls :
    LET cl == calls[c]
    IN /\ EndpointExchanges(cl) <= 2
       /\ EndpointExchanges(cl) = 2
            => autoRefresh /\ cl.first # None /\ cl.first[1].status = 401
       /\ (cl.first # None /\ ~(autoRefresh /\ cl.first[1].status = 401))
            => cl.pc = "done" /\ Len(Dispatched(cl)) = 1

\* C3 witness: with auto-refresh enabled a call answered 429 has ended after
\* its only exchange.
RetryOnlyOnceOnlyOn401Witness ==
  \E c \in Calls :
    LET cl == calls[c]
    IN /\ autoRefresh /\ cl.pc = "done"
       /\ cl.first # None /\ cl.first[1].status = 429
       /\ Len(Dispatched(cl)) = 1
       /\ cl.result.kind = "error"

\* ---- C4 ------------------------------------------------------------------
\* C4: whatever the transport answers and however two calls interleave, a
\* call makes at most four transport invocations (at most two with /token,
\* at most two with its endpoint) and every _request that was started ends.
DispatchBoundedAndEnds ==
  /\ [](\A c \in Calls :
          /\ Len(calls[c].sent) <= 4
          /\ TokenExchanges(calls[c]) <= 2
          /\ EndpointExchanges(calls[c]) <= 2)
  /\ \A c \in Calls :
       (calls[c].op = "_request" /\ calls[c].pc # "done") ~> (calls[c].pc = "done")

\* C4 witness: a call that ended after four invocations (authentication,
\* original, re-authentication, retry) with 401 on both endpoint exchanges,
\* while the other call was outstanding.
DispatchBoundedAndEndsWitness ==
  \E c \in Calls, o \in Calls :
    /\ o # c /\ calls[o].pc \notin {"idle", "done"}
    /\ calls[c].pc = "done" /\ Len(calls[c].sent) = 4
    /\ calls[c].first[1].status = 401 /\ calls[c].retry # None
    /\ calls[c].retry[1].status = 401

\* ---- C5 ------------------------------------------------------------------
\* C5 as stated: a call whose original exchange was answered 401 and whose
\* retry was answered 200 has succeeded with exactly two transport
\* invocations.
RetrySucceedsWithTwoInvocations ==
  \A c \in Calls :
    LET cl == calls[c]
    IN ( /\ cl.op = "_request" /\ cl.pc = "done"
         /\ cl.first # None /\ cl.first[1].status = 401
         /\ cl.retry # None /\ cl.retry[1].status = 200 )
       => /\ cl.result = Ok(cl.retry[1].data)
          /\ Len(cl.sent) = 2

\* C5 as amended: such a call has succeeded with the retry's body; it
\* exchanged with its endpoint exactly twice, and from the original exchange
\* on it invoked the transport exactly three times: original, POST /token,
\* retry.  One /token exchange precedes them when getToken() authenticated.
RetrySucceedsWithOneReauthentication ==
  \A c \in Calls :
    LET cl == calls[c]
    IN ( /\ cl.op = "_request" /\ cl.pc = "done"
         /\ cl.first # None /\ cl.first[1].status = 401
         /\ cl.retry # None /\ cl.retry[1].status = 200 )
       => /\ cl.result = Ok(cl.retry[1].data)
          /\ EndpointExchanges(cl) = 2
          /\ Len(Dispatched(cl)) = 3
          /\ Dispatched(cl)[2] = AuthRequest
          /\ Len(cl.sent) \in {3, 4}
          /\ Len(cl.sent) = 4 => cl.sent[1] = AuthRequest

\* C5 witness: 401, then 200 on the retry, with three invocations in all.
RetrySucceedsWithOneReauthenticationWitness ==
  \E c \in Calls :
    LET cl == calls[c]
    IN /\ cl.op = "_request" /\ cl.pc = "done"
       /\ cl.first # None /\ cl.first[1].status = 401
       /\ cl.retry # None /\ cl.retry[1].status = 200
       /\ cl.result = Ok(cl.retry[1].data)
       /\ Len(cl.sent) = 3

\* ---- C6 ------------------------------------------------------------------
\* The response call c ended on: the latest answer it received, unless the
\* call ended on an exception that is not a response (a rejected fetch, a
\* throwing hook).
EndedOnResponse(cl) ==
  cl.pc = "done" /\ cl.last # None /\ cl.result.kind # "thrown"

\* C6 as stated: a _request that ended on a response whose status is not 2xx
\* ended with a structured error, never with that response's body as result.
NoErrorSwallowed ==
  \A c \in Calls :
    LET cl == calls[c]
    IN ( /\ cl.op = "_request" /\ EndedOnResponse(cl)
         /\ ~(cl.last[1].status >= 200 /\ cl.last[1].status <= 299) )
       => cl.result.kind = "error"

\* ---- C7 ------------------------------------------------------------------
\* C7: the first answer is classified by its status alone: 402 ends the call
\* with BazikInsufficientFundsError (402, "insufficient_funds"), 429 with
\* BazikRateLimitError (429, "rate_limit_exceeded"), any other status >= 400
\* but 401 with BazikError carrying that status; the details are the body.
FirstResponseClassified ==
  \A c \in Calls :
    LET cl == calls[c]
        st == cl.first[1].status
        res == cl.result
    IN (cl.first # None /\ st >= 400 /\ st # 401)
       => /\ cl.pc = "done"
          /\ res.kind = "error"
          /\ res.details = Some(cl.first[1].data)
          /\ res.status = Some(st)
          /\ st = 402 => /\ res.name = "BazikInsufficientFundsError"
                         /\ res.code = Some("insufficient_funds")
          /\ st = 429 => /\ res.name = "BazikRateLimitError"
                         /\ res.code = Some("rate_limit_exceeded")
          /\ st \notin {402, 429} => res.name = "BazikError"

\* C7 witness: a call answered 402 that ended with BazikInsufficientFundsError.
FirstResponseClassifiedWitness ==
  \E c \in Calls :
    LET cl == calls[c]
    IN /\ cl.pc = "done" /\ cl.first # None /\ cl.first[1].status = 402
       /\ cl.result.kind = "error"
       /\ cl.result.name = "BazikInsufficientFundsError"
       /\ cl.result.details = Some(cl.first[1].data)

\* ---- C8 ------------------------------------------------------------------
\* C8: with auto-refresh disabled, the step that receives 401 ends the call
\* with BazikAuthError, status 401, the message and code of the body (the
\* default message "Unauthorized." and no code when the body has none); the
\* step issues no exchange and leaves the credential as it was; the call has
\* made one endpoint exchange and nothing after it.
UnauthorizedWithoutAutoRefresh ==
  /\ [](~autoRefresh => \A c \in Calls : Len(Dispatched(calls[c])) <= 1)
  /\ [][\A c \in Calls :
          LET cl == calls[c]
              nx == calls'[c]
              data == nx.first[1].data
          IN ( /\ ~autoRefresh /\ cl.pc = "orig"
               /\ nx.first # None /\ nx.first[1].status = 401 )
             => /\ nx.pc = "done"
                /\ nx.result.kind = "error"
                /\ nx.result.name = "BazikAuthError"
                /\ nx.result.status = Some(401)
                /\ data.error # None
                     => /\ Some(nx.result.message) = data.error[1].message
                        /\ nx.result.code = data.error[1].code
                /\ data.error = None
                     => /\ nx.result.message = "Unauthorized."
                        /\ nx.result.code = None
                /\ nx.sent = cl.sent
                /\ EndpointExchanges(nx) = 1
                /\ token' = token
                /\ tokenExpiresAt' = tokenExpiresAt
     ]_vars

\* C8 witness: auto-refresh disabled, a 401 with the server's message and code.
UnauthorizedWithoutAutoRefreshWitness ==
  \E c \in Calls :
    LET cl == calls[c]
    IN /\ ~autoRefresh /\ cl.pc = "done"
       /\ cl.first # None /\ cl.first[1].status = 401
       /\ cl.result.kind = "error" /\ cl.result.name = "BazikAuthError"
       /\ cl.result.message = "srv_msg" /\ cl.result.code = Some("srv_code")
       /\ Len(Dispatched(cl)) = 1

\* ---- C9 ------------------------------------------------------------------
\* An authenticate() call that returned: one POST /token exchange, answered
\* 200 with a token; the body is the result and its token and expires_at are
\* the stored credential.
AuthenticateReturned(cl) ==
  /\ cl.sent = <<AuthRequest>>
  /\ AuthRequest.method = "POST" /\ AuthRequest.path = "/token"
  /\ cl.last # None /\ cl.last[1].status = 200 /\ cl.last[1].data.token # None
  /\ cl.result = Ok(cl.last[1].data)
  /\ token = cl.result.value.token
  /\ tokenExpiresAt = cl.result.value.expires_at

AuthenticateErrorKinds ==
  \A c \in Calls :
    LET cl == calls[c]
        st == cl.last[1].status
        data == cl.last[1].data
        res == cl.result
    IN ( /\ cl.op = "authenticate" /\ cl.pc = "done" /\ cl.last # None
         /\ (st # 200 \/ data.token = None) )
       => /\ res.kind = "error"
          /\ res.status = Some(st)
          /\ st = 401
               => /\ res.name = "BazikAuthError"
                  /\ data.error # None
                       => /\ Some(res.message) = data.error[1].message
                          /\ res.code = data.error[1].code
                          /\ res.details = data.error[1].details
                  /\ data.error = None
                       => /\ res.message = "Invalid credentials."
                          /\ res.code = None
                          /\ res.details = None
          /\ st = 429
               => /\ res.name = "BazikRateLimitError"
                  /\ res.code = Some("rate_limit_exceeded")
          /\ st \notin {401, 429} => res.name = "BazikError"

\* C10 witness: a 200 answer without a token ended authenticate() with
\* BazikError carrying status 200.
AuthenticateErrorKindsWitness ==
  \E c \in Calls :
    LET cl == calls[c]
    IN /\ cl.op = "authenticate" /\ cl.pc = "done" /\ cl.last # None
       /\ cl.last[1].status = 200 /\ cl.last[1].data.token = None
       /\ cl.result.kind = "error" /\ cl.result.name = "BazikError"
       /\ cl.result.status = Some(200)

\* ---- reading the steps of authenticate() ----------------------------------
\* Call c is in an authenticate() (its own, getToken()'s or the one after a
\* 401) and this step is the rest of that authenticate() after its exchange
\* was answered.
AuthAnswered(c) ==
  /\ calls[c].pc \in {"auth", "gtAuth", "reAuth"}
  /\ calls'[c].pc # calls[c].pc
  /\ calls'[c].result # Thrown("fetch")

\* The answer was a success: status 200 with a token.
AuthSucceeded(c) ==
  /\ AuthAnswered(c)
  /\ calls'[c].last[1].status = 200
  /\ calls'[c].last[1].data.token # None

\* ---- C11 -----------------------------------------------------------------
\* C11 as stated: a step in which an authenticate() ends with an error (an
\* error of the client or any exception, the call does not return) leaves
\* the stored token and expiry as they were.
FailedAuthenticateKeepsCredential ==
  [][\A c \in Calls :
       ( /\ calls[c].pc \in {"auth", "gtAuth", "reAuth"}
         /\ calls'[c].pc = "done"
         /\ calls'[c].result.kind \in {"error", "thrown"} )
       => /\ token' = token
          /\ tokenExpiresAt' = tokenExpiresAt
    ]_vars

\* ---- C12 -----------------------------------------------------------------
\* C12: a configured hook is invoked exactly once in the step in which an
\* authenticate() received status 200 with a token, with that token as
\* argument and with that token already stored; no other step of a call
\* (an authenticate() answered otherwise, a getToken()/_request that does
\* not authenticate) invokes it, and a client without hook never does.
HookOncePerSuccessfulAuthenticate ==
  /\ [](onTokenRefresh = "none" => \A c \in Calls : calls[c].hooks = <<>>)
  /\ [][\A c \in Calls :
          LET cl == calls[c]
              nx == calls'[c]
              tok == nx.last[1].data.token
          IN /\ (AuthSucceeded(c) /\ onTokenRefresh = "set")
                => /\ Len(nx.hooks) = Len(cl.hooks) + 1
                   /\ SubSeq(nx.hooks, 1, Len(cl.hooks)) = cl.hooks
                   /\ nx.hooks[Len(nx.hooks)].arg = tok
                   /\ nx.hooks[Len(nx.hooks)].stored = tok
                   /\ token' = tok
             /\ (~AuthSucceeded(c) /\ nx.pc # "idle") => nx.hooks = cl.hooks
             /\ nx.pc = "idle" => nx.hooks = <<>>
     ]_vars

\* C12 witness: a _request that authenticated twice (in getToken() and after
\* a 401) has invoked the hook twice, each time with the token just stored.
HookOncePerSuccessfulAuthenticateWitness ==
  \E c \in Calls :
    LET cl == calls[c]
    IN /\ cl.op = "_request" /\ cl.pc = "done"
       /\ Len(cl.hooks) = 2 /\ TokenExchanges(cl) = 2
       /\ cl.hooks[1].arg = Some("tokB") /\ cl.hooks[1].stored = Some("tokB")
       /\ cl.hooks[2].arg = Some("tokA") /\ cl.hooks[2].stored = Some("tokA")
       /\ token = Some("tokA")

\* ---- C13 -----------------------------------------------------------------
\* C13 as stated: a call in which the hook threw has not failed by it: no
\* authenticate(), getToken() or _request ends with the hook's exception.
HookFailureDoesNotFailTheCall ==
  \A c \in Calls :
    LET cl == calls[c]
    IN (\E i \in DOMAIN cl.hooks : cl.hooks[i].threw)
       => cl.result # Thrown("hook")

\* ---- C14 -----------------------------------------------------------------
\* C14: isTokenValid() returns true exactly when a token is stored and the
\* current time is strictly less than the stored expiry minus one hour; it
\* returns false while no token is stored; the call issues no exchange and
\* leaves the stored token and expiry as they were.
IsTokenValidIffFresh ==
  [][\A c \in Calls :
       (calls[c].pc = "idle" /\ calls'[c].op = "isTokenValid")
       => /\ calls'[c].pc = "done"
          /\ calls'[c].result =
               Ok( /\ token # None
                   /\ tokenExpiresAt # None
                   /\ now < tokenExpiresAt[1] - 60 * 60 * 1000 )
          /\ token = None => calls'[c].result = Ok(FALSE)
          /\ calls'[c].sent = <<>>
          /\ token' = token
          /\ tokenExpiresAt' = tokenExpiresAt
    ]_vars

\* C14 witness: isTokenValid() has returned true on a stored token.
IsTokenValidIffFreshWitness ==
  \E c \in Calls :
    LET cl == calls[c]
    IN /\ cl.op = "isTokenValid" /\ cl.pc = "done"
       /\ cl.result = Ok(TRUE)
       /\ token = Some("tokA") /\ tokenExpiresAt = Some(2 * 60 * 60 * 1000)
       /\ now = 0
       /\ cl.sent = <<>>

\* ---- C15 -----------------------------------------------------------------
\* C15: while a token is stored whose expiry E satisfies now < E - margin,
\* every getToken() returns the stored token at once, with no transport
\* call, whatever the auto-refresh setting and however many calls came
\* before it; the credential stays as it is.
FreshCredentialIsReused ==
  [][\A c \in Calls :
       ( /\ calls[c].pc = "idle" /\ calls'[c].op = "getToken"
         /\ token # None /\ tokenExpiresAt # None
         /\ now < tokenExpiresAt[1] - TOKEN_REFRESH_MARGIN_MS )
       => /\ calls'[c].pc = "done"
          /\ calls'[c].result = Ok(token)
          /\ calls'[c].sent = <<>>
          /\ token' = token
          /\ tokenExpiresAt' = tokenExpiresAt
    ]_vars

\* C15 witness: with auto-refresh enabled, the second getToken() after an
\* authenticate() has returned the cached token without a transport call.
FreshCredentialIsReusedWitness ==
  \E c \in Calls :
    LET cl == calls[c]
    IN /\ autoRefresh /\ started = 3
       /\ cl.op = "getToken" /\ cl.pc = "done"
       /\ cl.sent = <<>>
       /\ cl.tok0 = Some("tokA") /\ cl.result = Ok(Some("tokA"))
       /\ isTokenValid

\* ---- C16 -----------------------------------------------------------------
\* C16: a getToken() called while no token is stored (whatever the
\* auto-refresh setting), or with auto-refresh enabled while isTokenValid()
\* is false, starts with authenticate(); the step in which it returns
\* delivers the token stored then, and the call has made exactly one /token
\* exchange, whose answer carried that token.
GetTokenAuthenticatesOnce ==
  /\ [][\A c \in Calls :
          LET cl == calls[c]
              nx == calls'[c]
          IN /\ ( /\ cl.pc = "idle" /\ nx.op = "getToken"
                  /\ (token = None \/ (autoRefresh /\ ~isTokenValid)) )
                => /\ nx.pc = "gtAuth"
                   /\ nx.sent = <<AuthRequest>>
             /\ (cl.op = "getToken" /\ cl.pc = "gotToken" /\ nx.pc = "done")
                => /\ nx.result = Ok(token)
                   /\ token # None
                   /\ nx.sent = <<AuthRequest>>
     ]_vars
  /\ [](\A c \in Calls :
          LET cl == calls[c]
          IN ( /\ cl.op = "getToken" /\ cl.pc = "done"
               /\ cl.result.kind = "ok" /\ cl.sent # <<>> )
             => /\ TokenExchanges(cl) = 1
                /\ Len(cl.sent) = 1
                /\ cl.result.value = cl.last[1].data.token)

\* C16 witness: with auto-refresh disabled and no token stored, getToken()
\* has authenticated once and returned the token it obtained.
GetTokenAuthenticatesOnceWitness ==
  \E c \in Calls :
    LET cl == calls[c]
    IN /\ ~autoRefresh
       /\ cl.op = "getToken" /\ cl.pc = "done" /\ cl.tok0 = None
       /\ cl.sent = <<AuthRequest>>
       /\ cl.result = Ok(Some("tokB")) /\ token = Some("tokB")

\* ---- C17 -----------------------------------------------------------------
\* C17: with auto-refresh disabled, a getToken() called while a token is
\* stored returns that token at once even when isTokenValid() is false, with
\* no transport call, and leaves token and expiry as they are.
StaleTokenReturnedAsIs ==
  [][\A c \in Calls :
       ( /\ calls[c].pc = "idle" /\ calls'[c].op = "getToken"
         /\ ~autoRefresh /\ token # None )
       => /\ calls'[c].pc = "done"
          /\ calls'[c].result = Ok(token)
          /\ calls'[c].sent = <<>>
          /\ calls'[c].hooks = <<>>
          /\ token' = token
          /\ tokenExpiresAt' = tokenExpiresAt
    ]_vars

\* C17 witness: auto-refresh disabled, a stale token, returned as it is.
StaleTokenReturnedAsIsWitness ==
  \E c \in Calls :
    LET cl == calls[c]
    IN /\ ~autoRefresh /\ token # None /\ ~isTokenValid
       /\ cl.op = "getToken" /\ cl.pc = "done"
       /\ cl.sent = <<>> /\ cl.result = Ok(token) /\ cl.tok0 = token

\* ---- reading a facade call --------------------------------------------------
\* The inputs the specification calls invalid, stated on the arguments.
AbsentValue(v) == v \in {Undefined, Null, Str(<<>>)}

\* Not a number, not finite, or <= 0; or above the maximum, if there is one.
BadAmount(v, hasMax, max) ==
  \/ v.t \notin {"number", "NaN", "Infinity", "-Infinity"}
  \/ v.t \in {"NaN", "Infinity", "-Infinity"}
  \/ v.n <= 0
  \/ hasMax /\ v.n > max

\* Exactly 8 or exactly 11 decimal digits.
GoodWallet(v) ==
  /\ v.t = "string"
  /\ Len(v.s) \in {8, 11}
  /\ \A i \in 1..Len(v.s) :
       v.s[i] \in {"0", "1", "2", "3", "4", "5", "6", "7", "8", "9"}

PayoutFacades == {"payments.withdraw", "transfers.moncash", "transfers.natcash"}

InvalidInput(in) ==
  CASE in.name = "payments.create" ->
         AbsentValue(in.params.gdes) \/ BadAmount(in.params.gdes, TRUE, 75000)
    [] in.name \in {"payments.verify", "transfers.getStatus"} ->
         AbsentValue(in.a) \/ in.a \in {Num(0), NaN}
    [] in.name \in PayoutFacades ->
         \/ \E f \in {"gdes", "wallet", "customerFirstName", "customerLastName"} :
              AbsentValue(in.params[f])
         \/ BadAmount(in.params.gdes, FALSE, 0)
         \/ ~GoodWallet(in.params.wallet)
    [] in.name = "transfers.checkCustomer" -> ~GoodWallet(in.a)
    [] in.name = "transfers.getQuote" ->
         BadAmount(in.a, FALSE, 0) \/ in.b \notin {Str(Moncash), Str(Natcash)}
    [] in.name \in {"payments.getBalance", "wallet.getBalance"} -> FALSE

IsValidationError(res) ==
  /\ res.kind = "error"
  /\ res.name = "BazikValidationError"
  /\ res.status = Some(400)
  /\ res.code = Some("validation_error")

\* ---- C18 -----------------------------------------------------------------
\* C18: a facade call with an invalid input ends, in the step in which it is
\* called, with ValidationError, with no transport invocation (no /token
\* exchange either, whatever the stored credential) and with token and
\* expiry unchanged; and no call that ended with ValidationError has invoked
\* the transport or the hook.
ValidationBeforeNetwork ==
  /\ [](\A c \in Calls :
          LET cl == calls[c]
          IN (cl.result.kind = "error" /\ cl.result.name = "BazikValidationError")
             => /\ cl.pc = "done"
                /\ cl.sent = <<>> /\ cl.hooks = <<>> /\ cl.last = None)
  /\ [][\A c \in Calls :
          LET nx == calls'[c]
          IN ( /\ calls[c].pc = "idle" /\ nx.facade # None
               /\ InvalidInput(nx.facade[1]) )
             => /\ nx.pc = "done"
                /\ IsValidationError(nx.result)
                /\ nx.sent = <<>>
                /\ token' = token
                /\ tokenExpiresAt' = tokenExpiresAt
     ]_vars

\* C18 witness: on a client that never authenticated, transfers.moncash with
\* a 7-digit wallet has ended with ValidationError and an empty transport log.
ValidationBeforeNetworkWitness ==
  \E c \in Calls :
    LET cl == calls[c]
    IN /\ token = None /\ started = 1
       /\ cl.facade # None /\ cl.facade[1].name = "transfers.moncash"
       /\ cl.facade[1].params.gdes = Num(1)
       /\ cl.facade[1].params.wallet = Str(Digits7)
       /\ cl.pc = "done" /\ IsValidationError(cl.result)
       /\ cl.sent = <<>>

\* ---- C19 -----------------------------------------------------------------
\* C19: every amount check that was made threw, and then ValidationError,
\* exactly when the value is not a number, is not finite, is <= 0, or
\* exceeds the maximum it was given; so a value equal to the maximum passes,
\* and without maximum every finite positive number passes.
AmountCheckExact ==
  \A c \in Calls :
    \A i \in DOMAIN calls[c].checks :
      LET ck == calls[c].checks[i]
      IN ck.fn = "validateAmount"
         => /\ (ck.error # None)
                 <=> BadAmount(ck.val, ck.max # Undefined, ck.max.n)
            /\ ck.error # None => IsValidationError(ck.error[1])
            /\ (ck.val.t = "number" /\ ck.val.n > 0 /\ ck.max = Undefined)
                 => ck.error = None
            /\ (ck.max # Undefined /\ ck.val = ck.max) => ck.error = None

\* C19 witness: payments.create with gdes = 75000 has passed the amount
\* check against the maximum 75000 and was dispatched.
AmountCheckExactWitness ==
  \E c \in Calls :
    LET cl == calls[c]
    IN /\ cl.facade # None /\ cl.facade[1].name = "payments.create"
       /\ Len(cl.checks) = 2
       /\ cl.checks[2].fn = "validateAmount"
       /\ cl.checks[2].val = Num(75000) /\ cl.checks[2].max = Num(75000)
       /\ cl.checks[2].error = None
       /\ cl.sent # <<>>

\* ---- C20 -----------------------------------------------------------------
\* C20: every wallet check that was made passed exactly when the value is a
\* string of exactly 8 or exactly 11 decimal digits, and threw
\* ValidationError otherwise; withdraw, transfers.moncash,
\* transfers.natcash and transfers.checkCustomer reach _request only with a
\* wallet that passed it.
WalletCheckExact ==
  \A c \in Calls :
    LET cl == calls[c]
    IN /\ \A i \in DOMAIN cl.checks :
            LET ck == cl.checks[i]
            IN ck.fn = "validateWallet"
               => /\ (ck.error = None) <=> GoodWallet(ck.val)
                  /\ ck.error # None => IsValidationError(ck.error[1])
       /\ ( /\ cl.facade # None
            /\ cl.facade[1].name \in PayoutFacades \cup {"transfers.checkCustomer"}
            /\ cl.op = "_request" )
          => LET w == IF cl.facade[1].name = "transfers.checkCustomer"
                        THEN cl.facade[1].a ELSE cl.facade[1].params.wallet
             IN /\ GoodWallet(w)
                /\ \E i \in DOMAIN cl.checks :
                     /\ cl.checks[i].fn = "validateWallet"
                     /\ cl.checks[i].val = w

\* C20 witness: transfers.checkCustomer with an 11-digit wallet has passed
\* the wallet check and was dispatched.
WalletCheckExactWitness ==
  \E c \in Calls :
    LET cl == calls[c]
    IN /\ cl.facade # None /\ cl.facade[1].name = "transfers.checkCustomer"
       /\ cl.facade[1].a = Str(Digits11)
       /\ cl.checks[1].fn = "validateWallet" /\ cl.checks[1].error = None
       /\ cl.op = "_request" /\ cl.sent # <<>>

\* ---- C21 -----------------------------------------------------------------
\* The names among fields, from position i on, whose value in obj is absent,
\* null or the empty string, separated by ", ".
RECURSIVE AbsentNamesFrom(_, _, _, _)
AbsentNamesFrom(obj, fields, i, first) ==
  IF i > Len(fields) THEN ""
  ELSE IF AbsentValue(obj[fields[i]])
    THEN (IF first THEN "" ELSE ", ") \o fields[i]
           \o AbsentNamesFrom(obj, fields, i + 1, FALSE)
  ELSE AbsentNamesFrom(obj, fields, i + 1, first)

\* C21: every required-fields check that was made threw, and then
\* ValidationError, exactly when one of the named fields is absent, null or
\* the empty string; its message names every such field, in the order the
\* names were given; 0 and false are present.
RequiredCheckExact ==
  \A c \in Calls :
    \A i \in DOMAIN calls[c].checks :
      LET ck == calls[c].checks[i]
      IN ck.fn = "validateRequired"
         => /\ (ck.error # None)
                 <=> \E k \in DOMAIN ck.fields : AbsentValue(ck.obj[ck.fields[k]])
            /\ ck.error # None
                 => /\ IsValidationError(ck.error[1])
                    /\ ck.error[1].message =
                         "Missing required field(s): "
                           \o AbsentNamesFrom(ck.obj, ck.fields, 1, TRUE)
            /\ (\A k \in DOMAIN ck.fields : ck.obj[ck.fields[k]] \in {Num(0), False})
                 => ck.error = None

\* C21 witness: a payout without wallet and first name and with an empty
\* last name was rejected with the three names in the order given.
RequiredCheckExactWitness ==
  \E c \in Calls :
    LET cl == calls[c]
    IN /\ cl.facade # None /\ cl.facade[1].name = "payments.withdraw"
       /\ cl.facade[1].params.gdes = Num(0)
       /\ cl.pc = "done" /\ IsValidationError(cl.result)
       /\ cl.result.message =
            "Missing required field(s): wallet, customerFirstName, customerLastName"

\* ---- C22 -----------------------------------------------------------------
\* The payout call in has every required field and a wallet of 8 or 11
\* digits.
PayoutOtherwiseValid(in) ==
  /\ \A f \in {"wallet", "customerFirstName", "customerLastName"} :
       ~AbsentValue(in.params[f])
  /\ GoodWallet(in.params.wallet)

\* C22: payments.create with an amount above 75000 has ended with
\* ValidationError naming the maximum, without transport call; with 75000
\* it has called _request; withdraw, transfers.moncash and
\* transfers.natcash with an amount above 75000 (and otherwise valid
\* arguments) have called _request with that amount in the body.
CapOnlyOnCreate ==
  \A c \in Calls :
    LET cl == calls[c]
        in == cl.facade[1]
        g == in.params.gdes
    IN cl.facade # None
       => /\ (in.name = "payments.create" /\ g.t = "number" /\ g.n > 75000)
               => /\ cl.pc = "done" /\ IsValidationError(cl.result)
                  /\ cl.result.message =
                       "Amount " \o ToString(g.n) \o " exceeds maximum of 75000 HTG."
                  /\ cl.sent = <<>>
          /\ (in.name = "payments.create" /\ g = Num(75000))
               => /\ cl.op = "_request"
                  /\ cl.desc = Some([method |-> "POST", path |-> "/moncash/token",
                                     body |-> Some(in.params)])
          /\ ( /\ in.name \in PayoutFacades /\ g.t = "number" /\ g.n > 75000
               /\ PayoutOtherwiseValid(in) )
               => /\ cl.op = "_request"
                  /\ cl.desc # None
                  /\ cl.desc[1].body = Some(in.params)
                  /\ \A i \in DOMAIN cl.checks : cl.checks[i].error = None

\* C22 witness: payments.withdraw with gdes = 80000 has sent its exchange to
\* /moncash/withdraw.
CapOnlyOnCreateWitness ==
  \E c \in Calls :
    LET cl == calls[c]
    IN /\ cl.facade # None /\ cl.facade[1].name = "payments.withdraw"
       /\ cl.facade[1].params.gdes = Num(80000)
       /\ cl.op = "_request"
       /\ \E i \in DOMAIN cl.sent : cl.sent[i].path = "/moncash/withdraw"

\* ---- C23 -----------------------------------------------------------------
\* C23: transfers.getQuote with a provider other than "moncash" and
\* "natcash", or with an invalid amount, has ended with ValidationError and
\* an empty transport log; otherwise it has called _request with POST
\* /transfers/quote and the body {amount, provider}, every exchange with
\* that endpoint carries them, and an answer of 200 ends the call with the
\* answer's body as result.
QuoteValidatedThenDispatched ==
  \A c \in Calls :
    LET cl == calls[c]
        in == cl.facade[1]
    IN (cl.facade # None /\ in.name = "transfers.getQuote")
       => IF BadAmount(in.a, FALSE, 0) \/ in.b \notin {Str(Moncash), Str(Natcash)}
            THEN /\ cl.pc = "done" /\ IsValidationError(cl.result)
                 /\ cl.sent = <<>> /\ cl.last = None
            ELSE /\ cl.op = "_request"
                 /\ cl.desc = Some([method |-> "POST", path |-> "/transfers/quote",
                                    body |-> Some([amount |-> in.a,
                                                   provider |-> in.b])])
                 /\ \A i \in DOMAIN cl.sent :
                      cl.sent[i].path # "/token"
                      => /\ cl.sent[i].method = "POST"
                         /\ cl.sent[i].path = "/transfers/quote"
                         /\ cl.sent[i].body =
                              Some(<<"json", [amount |-> in.a, provider |-> in.b]>>)
                 /\ (cl.first # None /\ cl.first[1].status = 200)
                      => /\ cl.pc = "done"
                         /\ cl.result = Ok(cl.first[1].data)

\* C23 witness: getQuote(1, "moncash") was answered 200 and has returned the
\* body.
QuoteValidatedThenDispatchedWitness ==
  \E c \in Calls :
    LET cl == calls[c]
    IN /\ cl.facade # None /\ cl.facade[1].name = "transfers.getQuote"
       /\ cl.facade[1].a = Num(1) /\ cl.facade[1].b = Str(Moncash)
       /\ cl.first # None /\ cl.first[1].status = 200
       /\ cl.pc = "done" /\ cl.result = Ok(cl.first[1].data)
       /\ EndpointExchanges(cl) = 1

\* ---- C26 -----------------------------------------------------------------
\* C26: the constructor has thrown, and then ValidationError, exactly when
\* no config was given or the identifier or the secret is absent or empty
\* (so for {} as well), and then nothing was ever called; a constructed
\* client has auto-refresh on unless the option is false, and before its
\* first call it holds no token, isTokenValid() is false and no transport
\* call was issued.
ConstructorValidatesConfig ==
  /\ (constructionError # None)
       <=> \/ ~config.given
           \/ AbsentValue(config.userID)
           \/ AbsentValue(config.secretKey)
  /\ constructionError # None
       => /\ IsValidationError(constructionError[1])
          /\ started = 0
          /\ \A c \in Calls : calls[c] = IdleCall
  /\ constructionError = None
       => /\ autoRefresh <=> (config.autoRefresh # False)
          /\ started = 0
               => /\ token = None
                  /\ ~isTokenValid
                  /\ \A c \in Calls : calls[c].pc = "idle" /\ calls[c].sent = <<>>

\* C26 witness: a config with identifier but without secret made the
\* constructor throw.
ConstructorValidatesConfigWitness ==
  /\ config.given /\ config.userID = UserID /\ config.secretKey = Undefined
  /\ constructionError # None
  /\ IsValidationError(constructionError[1])

\* ---- C27 -----------------------------------------------------------------
\* The tokens the transport issues to interleaved calls.
IssuedTokens ==
  {r.data.token : r \in {a \in ConcAuthResponses :
                           a.status = 200 /\ a.data.token # None}}

\* C27: a getToken()/_request that finds the credential absent, or stale
\* with auto-refresh on, issues its own /token exchange whether or not
\* another call is awaiting one; a step of one call leaves every other call
\* as it was; each successful authentication stores the token and expiry of
\* its own answer, so the pair stored is the one of the answer handled
\* last; and every exchange with an endpoint carries an issued token.
AuthenticationNotSingleFlight ==
  /\ [][\A c \in Calls :
          LET cl == calls[c]
              nx == calls'[c]
          IN /\ ( /\ cl.pc = "idle" /\ nx.op \in {"getToken", "_request"}
                  /\ (token = None \/ (autoRefresh /\ ~isTokenValid)) )
                => /\ nx.pc = "gtAuth"
                   /\ nx.sent = <<AuthRequest>>
             /\ AuthSucceeded(c)
                => /\ token' = nx.last[1].data.token
                   /\ tokenExpiresAt' = nx.last[1].data.expires_at
             /\ nx # cl => \A d \in Calls \ {c} : calls'[d] = calls[d]
     ]_vars
  /\ [](\A c \in Calls :
          \A i \in DOMAIN calls[c].sent :
            calls[c].sent[i].path # "/token"
            => calls[c].sent[i].auth \in IssuedTokens)

\* C27 witness: both calls authenticated; B's answer (tokB) was handled
\* first and A's (tokA) last, tokA is stored and both calls have sent their
\* exchange with it.
AuthenticationNotSingleFlightWitness ==
  LET a == calls["A"]
      b == calls["B"]
  IN /\ a.op = "_request" /\ b.op = "_request"
     /\ a.pc = "orig" /\ b.pc = "orig"
     /\ a.sent[1] = AuthRequest /\ b.sent[1] = AuthRequest
     /\ a.last[1].data.token = Some("tokA")
     /\ b.last[1].data.token = Some("tokB")
     /\ token = Some("tokA")
     /\ tokenExpiresAt = Some(2 * TOKEN_REFRESH_MARGIN_MS)
     /\ a.sent[2].auth = Some("tokA") /\ b.sent[2].auth = Some("tokA")
     /\ ~autoRefresh

\* ---- C28 -----------------------------------------------------------------
\* The exchange call c is awaiting fails in the transport in this step: the
\* call ends without the exchange having been answered.
TransportFailed(c) ==
  /\ calls[c].pc \in {"auth", "gtAuth", "reAuth", "orig", "retry"}
  /\ calls'[c].pc = "done"
  /\ calls'[c].answered = calls[c].answered

\* C28 as stated: when the exchange a call is awaiting fails in the
\* transport, the call ends with the generic error BazikError, no further
\* exchange is issued and token and expiry stay as they are.
TransportFailureIsGenericError ==
  [][\A c \in Calls :
       TransportFailed(c)
       => /\ calls'[c].result.kind = "error"
          /\ calls'[c].result.name = "BazikError"
          /\ calls'[c].sent = calls[c].sent
          /\ token' = token
          /\ tokenExpiresAt' = tokenExpiresAt
    ]_vars

\* ---- C30 -----------------------------------------------------------------
\* The (token, expiry) pairs the transport delivers in a successful answer
\* to POST /token.
DeliveredPairs ==
  {<<r.data.token, r.data.expires_at>> :
     r \in {a \in AuthResponses \cup ConcAuthResponses :
              a.status = 200 /\ a.data.token # None}}

\* The stored pair is the initial one or the pair of one successful answer.
StoredPairIsWhole ==
  \/ token = None /\ tokenExpiresAt = Some(0)
  \/ <<token, tokenExpiresAt>> \in DeliveredPairs

\* C30 as stated: in every state the stored (token, expiry) is the initial
\* absent credential or the pair delivered by one successful answer, and a
\* step in which an authenticate() surfaces an error (the call ends without
\* returning) leaves the stored pair as it was before the step.
CredentialNeverPartiallyMutated ==
  /\ []StoredPairIsWhole
  /\ [][\A c \in Calls :
          ( /\ calls[c].pc \in {"auth", "gtAuth", "reAuth"}
            /\ calls'[c].pc = "done"
            /\ calls'[c].result.kind # "ok" )
          => <<token, tokenExpiresAt>>' = <<token, tokenExpiresAt>>
       ]_vars

\* ---- C29 -----------------------------------------------------------------
\* The verb and path of each facade method, as the endpoint table lists them.
EndpointTable(in) ==
  CASE in.name = "payments.create" -> <<"POST", "/moncash/token">>
    [] in.name = "payments.verify" -> <<"GET", "/order/" \o EncodeURIComponent(in.a)>>
    [] in.name = "payments.withdraw" -> <<"POST", "/moncash/withdraw">>
    [] in.name = "payments.getBalance" -> <<"GET", "/balance">>
    [] in.name = "transfers.checkCustomer" -> <<"POST", "/moncash/customers/status">>
    [] in.name = "transfers.moncash" -> <<"POST", "/moncash/transfers">>
    [] in.name = "transfers.natcash" -> <<"POST", "/natcash/transfers">>
    [] in.name = "transfers.getStatus" -> <<"GET", "/transfers/" \o EncodeURIComponent(in.a)>>
    [] in.name = "transfers.getQuote" -> <<"POST", "/transfers/quote">>
    [] in.name = "wallet.getBalance" -> <<"GET", "/wallet">>

\* C29: a facade call whose checks passed is one _request with the verb and
\* path of the endpoint table, kept until the call's outcome is taken; every
\* exchange it has with the endpoint carries that verb and path; and a
\* _request whose first answer has a status below 400 has ended, after that
\* one exchange, with the answer's body as its result, which is the result
\* of the facade call.
FacadePassesThrough ==
  /\ [](\A c \in Calls :
          LET cl == calls[c]
          IN /\ (cl.facade # None /\ cl.result.kind # "error" /\ cl.pc # "done")
                  => cl.op = "_request" /\ cl.desc # None
             /\ (cl.facade # None /\ cl.desc # None)
                  => /\ cl.op = "_request"
                     /\ <<cl.desc[1].method, cl.desc[1].path>>
                          = EndpointTable(cl.facade[1])
                     /\ \A i \in DOMAIN cl.sent :
                          cl.sent[i].path # "/token"
                          => <<cl.sent[i].method, cl.sent[i].path>>
                               = EndpointTable(cl.facade[1])
             /\ (cl.op = "_request" /\ cl.first # None /\ cl.first[1].status < 400)
                  => /\ cl.pc = "done"
                     /\ cl.result = Ok(cl.first[1].data)
                     /\ EndpointExchanges(cl) = 1)
  /\ [][\A c \in Calls :
          (calls[c].facade # None /\ calls'[c] # IdleCall)
          => /\ calls'[c].facade = calls[c].facade
             /\ calls'[c].desc = calls[c].desc
             /\ calls'[c].op = calls[c].op
       ]_vars

\* C29 witness: wallet.getBalance() was answered 204 with a body and has
\* returned that body after one GET /wallet.
FacadePassesThroughWitness ==
  \E c \in Calls :
    LET cl == calls[c]
    IN /\ cl.facade # None /\ cl.facade[1].name = "wallet.getBalance"
       /\ cl.first = Some(Response(204, ErrFull))
       /\ cl.pc = "done" /\ cl.result = Ok(ErrFull)
       /\ EndpointExchanges(cl) = 1
       /\ \E i \in DOMAIN cl.sent :
            cl.sent[i].method = "GET" /\ cl.sent[i].path = "/wallet"

\* ---- C24 -----------------------------------------------------------------
\* Every payment the helper has seen so far was pending.
AllPending(sq) == \A i \in DOMAIN sq : sq[i] = Some("pending")

\* C24: the helper calls verify only before the deadline; while it goes on,
\* every payment seen was pending; the step that takes a payment whose
\* status is not "pending" ends the helper with that payment as result; a
\* helper that has returned a payment has seen k pending payments and then
\* the one returned, in exactly k + 1 calls of verify; a sleep that ends
\* before the deadline is followed by one more call; and a helper that has
\* ended makes no further call.
PollReturnsFirstNonPending ==
  /\ [](/\ poll.verifies > 0 => poll.calledAt < poll.deadline
        /\ poll.pc = "verify"
             => /\ poll.verifies = Len(poll.seen) + 1
                /\ AllPending(poll.seen)
        /\ poll.pc = "sleep"
             => /\ poll.verifies = Len(poll.seen)
                /\ AllPending(poll.seen)
        /\ (poll.pc = "done" /\ poll.result.kind = "ok")
             => LET k == Len(poll.seen) - 1
                IN /\ k >= 0
                   /\ AllPending(SubSeq(poll.seen, 1, k))
                   /\ poll.seen[k + 1] # Some("pending")
                   /\ poll.result.value.status = poll.seen[k + 1]
                   /\ poll.verifies = k + 1
        /\ poll.pc = "done" => calls["A"] = IdleCall)
  /\ [][/\ ( /\ poll.pc = "verify" /\ poll' # poll
             /\ calls["A"].result.kind = "ok"
             /\ calls["A"].result.value.status # Some("pending") )
           => /\ poll'.pc = "done"
              /\ poll'.result = Ok(calls["A"].result.value)
              /\ poll'.verifies = poll.verifies
        /\ (poll.pc = "sleep" /\ poll' # poll /\ now < poll.deadline)
           => /\ poll'.verifies = poll.verifies + 1
              /\ poll'.calledAt = now
        /\ poll.pc = "done" => poll' \in {poll, IdlePoll}
       ]_vars

\* C24 witness: two pending payments and then a successful one, with interval
\* 1 ms and timeout 3 ms: the helper has returned the successful payment after
\* three calls of verify.
PollReturnsFirstNonPendingWitness ==
  /\ poll.pc = "done"
  /\ poll.intervalMs = 1 /\ poll.timeoutMs = 3
  /\ poll.seen = <<Some("pending"), Some("pending"), Some("successful")>>
  /\ poll.result = Ok(Payment("successful"))
  /\ poll.verifies = 3

\* ---- C25 -----------------------------------------------------------------
\* C25: every call of the helper ends; a helper that has ended after each of
\* its calls of verify returned a pending payment has ended, with the
\* deadline reached, with BazikError, code "timeout", no status; the timeout
\* error is thrown only once the deadline is reached; and the outcome is
\* never a pending payment.
PollTimesOut ==
  /\ (poll.pc # "idle") ~> (poll.pc = "done")
  /\ [](poll.pc = "done"
          => /\ (Len(poll.seen) = poll.verifies /\ AllPending(poll.seen))
                  => /\ poll.result.kind = "error"
                     /\ poll.result.name = "BazikError"
                     /\ poll.result.code = Some("timeout")
                     /\ poll.result.status = None
                     /\ poll.result.message =
                          "Payment verification timed out after "
                            \o ToString(poll.timeoutMs) \o "ms."
                     /\ now >= poll.deadline
             /\ (poll.result.kind = "error" /\ poll.result.code = Some("timeout"))
                  => now >= poll.deadline
             /\ poll.result.kind = "ok"
                  => poll.result.value.status # Some("pending"))

\* C25 witness: with timeout 3 ms the helper has ended with the timeout error
\* after two or more calls of verify, all of which returned a pending payment.
PollTimesOutWitness ==
  /\ poll.pc = "done"
  /\ poll.timeoutMs = 3
  /\ poll.verifies >= 2
  /\ Len(poll.seen) = poll.verifies
  /\ AllPending(poll.seen)
  /\ poll.result.kind = "error"
  /\ poll.result.code = Some("timeout")
  /\ poll.result.status = None

\* ---- C31 -----------------------------------------------------------------
\* C31: a call that ended with BazikValidationError is a facade call that
\* received no answer and invoked no transport, and the error is the one its
\* last input check threw; the step in which a call receives an answer, of
\* /token or of an endpoint, of any status, never ends it with
\* BazikValidationError: a server's 400, even with the code
\* "validation_error", ends it with BazikError.
ValidationErrorOnlyLocal ==
  /\ [](\A c \in Calls :
          LET cl == calls[c]
          IN /\ (cl.result.kind = "error" /\ cl.result.name = "BazikValidationError")
                  => /\ cl.answered = 0 /\ cl.sent = <<>>
                     /\ cl.facade # None /\ cl.checks # <<>>
                     /\ cl.checks[Len(cl.checks)].error = Some(cl.result)
             /\ (cl.pc = "done" /\ cl.last # None /\ cl.last[1].status = 400
                   /\ cl.result.kind = "error")
                  => cl.result.name = "BazikError" /\ cl.result.status = Some(400))
  /\ (constructionError # None => \A c \in Calls : calls[c] = IdleCall)
  /\ [][\A c \in Calls :
          calls'[c].answered > calls[c].answered
          => ~( /\ calls'[c].result.kind = "error"
                /\ calls'[c].result.name = "BazikValidationError" )
       ]_vars

\* C31 witness: a facade call whose endpoint answered 400 with the code
\* "validation_error" has ended with BazikError, status 400.
ValidationErrorOnlyLocalWitness ==
  \E c \in Calls :
    LET cl == calls[c]
    IN /\ cl.facade # None /\ cl.pc = "done"
       /\ cl.last = Some(Response(400, ErrValidation))
       /\ cl.result.kind = "error" /\ cl.result.name = "BazikError"
       /\ cl.result.status = Some(400)
       /\ cl.result.code = Some("validation_error")

\* ---- C32 -----------------------------------------------------------------
\* The answer r of /token is not a success.
AuthFailureAnswer(r) == r.status # 200 \/ r.data.token \in {None, Some("")}

\* res is the error authenticate() throws for the failure answer r: its kind,
\* status and code.
IsAuthFailureOf(res, r) ==
  /\ res.kind = "error"
  /\ res.status = Some(r.status)
  /\ IF r.status = 401
       THEN res.name = "BazikAuthError" /\ res.code = ErrField(r.data, "code")
     ELSE IF r.status = 429
       THEN res.name = "BazikRateLimitError"
            /\ res.code = Some("rate_limit_exceeded")
     ELSE res.name = "BazikError" /\ res.code = ErrField(r.data, "code")

\* C32: when the authenticate() that getToken() makes at the start of a
\* _request ends without returning, the _request ends in the same step with
\* what authenticate() threw (for a failure answer the error of that answer,
\* kind, status and code), having issued nothing further: its transport log is
\* the one /token exchange, with no exchange with the endpoint.
InitialAuthFailurePropagates ==
  [][\A c \in Calls :
       LET cl == calls[c]
           nx == calls'[c]
       IN ( /\ cl.op = "_request" /\ cl.pc = "gtAuth"
            /\ nx.pc # "gtAuth" /\ nx.pc # "gotToken" )
          => /\ nx.pc = "done"
             /\ nx.result.kind \in {"error", "thrown"}
             /\ nx.sent = <<AuthRequest>>
             /\ EndpointExchanges(nx) = 0
             /\ nx.first = None /\ nx.retry = None
             /\ nx.answered > cl.answered
                  => \/ /\ AuthFailureAnswer(nx.last[1])
                        /\ IsAuthFailureOf(nx.result, nx.last[1])
                        /\ nx.result = AuthenticateOutcome(nx.last[1].status,
                                                           nx.last[1].data)
                     \/ /\ ~AuthFailureAnswer(nx.last[1])
                        /\ nx.result = Thrown("hook")
    ]_vars

\* C32 witness: a _request on a client without token whose /token exchange
\* was answered 429 has ended with BazikRateLimitError after that one
\* exchange.
InitialAuthFailurePropagatesWitness ==
  \E c \in Calls :
    LET cl == calls[c]
    IN /\ cl.op = "_request" /\ cl.pc = "done"
       /\ cl.sent = <<AuthRequest>>
       /\ cl.last # None /\ cl.last[1].status = 429
       /\ cl.result.kind = "error" /\ cl.result.name = "BazikRateLimitError"

\* ---- C36 -----------------------------------------------------------------
\* C36: when the /token exchange of the re-authentication after a 401 gets a
\* failure answer (401, 429, another status that is not 200, or 200 without
\* token), the _request ends in that step with the error of that answer,
\* issues no retry (its log stays: original, /token, preceded by getToken()'s
\* /token if any) and token and expiry are unchanged: the stored token is the
\* one the original exchange carried (calls made one after the other).
ReauthFailurePropagates ==
  [][\A c \in Calls :
       LET cl == calls[c]
           nx == calls'[c]
       IN ( /\ cl.pc = "reAuth" /\ nx.answered > cl.answered
            /\ AuthFailureAnswer(nx.last[1]) )
          => /\ nx.pc = "done"
             /\ IsAuthFailureOf(nx.result, nx.last[1])
             /\ nx.sent = cl.sent
             /\ nx.retry = None
             /\ EndpointExchanges(nx) = 1
             /\ token' = token /\ tokenExpiresAt' = tokenExpiresAt
             /\ \E i \in DOMAIN nx.sent :
                  nx.sent[i].path # "/token" /\ nx.sent[i].auth = token'
    ]_vars

\* C36 witness: a _request whose original exchange was answered 401 and whose
\* re-authentication was answered 200 without token has ended with BazikError,
\* status 200, and no retry.
ReauthFailurePropagatesWitness ==
  \E c \in Calls :
    LET cl == calls[c]
    IN /\ cl.op = "_request" /\ cl.pc = "done"
       /\ cl.first # None /\ cl.first[1].status = 401
       /\ cl.last # None /\ cl.last[1].status = 200
       /\ cl.last[1].data.token = None
       /\ cl.retry = None
       /\ cl.result.kind = "error" /\ cl.result.name = "BazikError"
       /\ cl.result.status = Some(200)
       /\ EndpointExchanges(cl) = 1

\* ---- C33 -----------------------------------------------------------------
\* C33 as stated: a _request that ended on the answer to its retry ended with
\* BazikInsufficientFundsError for 402, BazikRateLimitError for 429, BazikError
\* with the answer's status for any other status from 400 on (BazikAuthError
\* for 401), and with the answer's body as result only for a status below 400.
RetryResponseClassified ==
  \A c \in Calls :
    LET cl == calls[c]
        st == cl.retry[1].status
    IN (cl.op = "_request" /\ cl.pc = "done" /\ cl.retry # None)
       => IF st < 400
            THEN cl.result = Ok(cl.retry[1].data)
            ELSE /\ cl.result.kind = "error"
                 /\ cl.result.status = Some(st)
                 /\ cl.result.name =
                      CASE st = 401 -> "BazikAuthError"
                        [] st = 402 -> "BazikInsufficientFundsError"
                        [] st = 429 -> "BazikRateLimitError"
                        [] OTHER -> "BazikError"

\* ---- C34 -----------------------------------------------------------------
\* The exchanges of a call, "T" for /token and "E" for the endpoint.
ExchangeKinds(cl) ==
  [i \in DOMAIN cl.sent |-> IF cl.sent[i].path = "/token" THEN "T" ELSE "E"]

\* C34: a call that is going on has issued one exchange more than it has
\* had answers exactly while it awaits one, and never two more; the
\* exchanges of a _request are a prefix of (/token,) endpoint, /token,
\* endpoint; a step issues at most one exchange, and only with every earlier
\* one answered; the /token after the original is issued in the step that
\* receives the original's 401; and the retry is issued only by a call whose
\* re-authentication was answered 200 with a token and has returned.
OneExchangeAtATimeInOrder ==
  /\ [](\A c \in Calls :
          LET cl == calls[c]
              waiting == cl.pc \in {"auth", "gtAuth", "reAuth", "orig", "retry"}
          IN /\ cl.pc # "done"
                  => Len(cl.sent) = cl.answered + (IF waiting THEN 1 ELSE 0)
             /\ cl.pc = "done" => Len(cl.sent) - cl.answered \in {0, 1}
             /\ cl.op = "_request"
                  => ExchangeKinds(cl) \in
                       { <<>>, <<"T">>, <<"T", "E">>, <<"T", "E", "T">>,
                         <<"T", "E", "T", "E">>, <<"E">>, <<"E", "T">>,
                         <<"E", "T", "E">> })
  /\ [][\A c \in Calls :
          LET cl == calls[c]
              nx == calls'[c]
          IN /\ (cl.pc # "idle" /\ nx.pc # "idle" /\ nx.sent # cl.sent)
                  => /\ Len(nx.sent) = Len(cl.sent) + 1
                     /\ SubSeq(nx.sent, 1, Len(cl.sent)) = cl.sent
                     /\ nx.answered = Len(cl.sent)
             /\ (cl.pc # "idle" /\ nx.pc = "reAuth" /\ cl.pc # "reAuth")
                  => /\ cl.pc = "orig"
                     /\ nx.first # None /\ nx.first[1].status = 401
                     /\ nx.answered = cl.answered + 1
             /\ (cl.pc # "idle" /\ nx.pc = "reauthed" /\ cl.pc # "reauthed")
                  => /\ cl.pc = "reAuth"
                     /\ nx.answered = cl.answered + 1
                     /\ nx.last[1].status = 200
                     /\ nx.last[1].data.token # None
             /\ (cl.pc # "idle" /\ nx.pc = "retry" /\ cl.pc # "retry")
                  => cl.pc = "reauthed"
       ]_vars

\* C34 witness: a _request has ended after four exchanges, each answered:
\* /token, original, /token, retry.
OneExchangeAtATimeInOrderWitness ==
  \E c \in Calls :
    LET cl == calls[c]
    IN /\ cl.op = "_request" /\ cl.pc = "done"
       /\ ExchangeKinds(cl) = <<"T", "E", "T", "E">>
       /\ cl.answered = 4
       /\ cl.first # None /\ cl.first[1].status = 401
       /\ cl.retry # None

\* ---- C35 -----------------------------------------------------------------
\* C35 as stated: the helper starts a sleep after a pending payment only if
\* the deadline is not reached by the end of that sleep.
PollChecksDeadlineBeforeSleep ==
  [][(poll.pc = "verify" /\ poll'.pc = "sleep")
       => now + poll.intervalMs <= poll.deadline
    ]_vars

\* ---- C37 -----------------------------------------------------------------
\* The stored expiry is absent or not more than the margin after the clock.
ExpiryWithinMargin ==
  tokenExpiresAt = None \/ tokenExpiresAt[1] - now <= TOKEN_REFRESH_MARGIN_MS

\* C37: a stored token whose expiry is absent or within the margin is not
\* valid, and stays so as long as it is the stored one; with auto-refresh on
\* a getToken() or _request called with such a token issues a /token
\* exchange at once; and no _request issues more than four exchanges.
ShortLivedTokenNeverReused ==
  /\ []((token # None /\ ExpiryWithinMargin) => ~isTokenValid)
  /\ [](\A c \in Calls : calls[c].op = "_request" => Len(calls[c].sent) <= 4)
  /\ [][/\ (ExpiryWithinMargin /\ <<token, tokenExpiresAt>>' = <<token, tokenExpiresAt>>)
             => ExpiryWithinMargin'
        /\ \A c \in Calls :
             LET nx == calls'[c]
             IN ( /\ calls[c].pc = "idle" /\ nx.op \in {"getToken", "_request"}
                  /\ autoRefresh /\ token # None /\ ExpiryWithinMargin )
                => /\ nx.pc = "gtAuth"
                   /\ nx.sent = <<AuthRequest>>
       ]_vars

\* C37 witness: with auto-refresh on, a getToken() called while the token
\* stored was one delivered without expiry has made a /token exchange and
\* returned the token of that new authentication.
ShortLivedTokenNeverReusedWitness ==
  \E c \in Calls :
    LET cl == calls[c]
    IN /\ autoRefresh
       /\ cl.op = "getToken" /\ cl.pc = "done"
       /\ cl.tok0 = Some("tokC")
       /\ cl.sent = <<AuthRequest>>
       /\ cl.last # None /\ cl.last[1].status = 200
       /\ cl.result = Ok(cl.last[1].data.token)

\* ---- C38 -----------------------------------------------------------------
\* C38: with auto-refresh off and a token stored, the only step that issues
\* a /token exchange is the call of authenticate(); a getToken() returns the
\* stored token whether it is valid or not; a _request issues its exchange
\* with the stored token, and the step in which that exchange is answered 401
\* ends it with BazikAuthError, status 401, with nothing further issued and
\* token and expiry unchanged.
NoRenewalWithoutAutoRefresh ==
  [][\A c \in Calls :
       LET cl == calls[c]
           nx == calls'[c]
       IN (~autoRefresh /\ token # None)
          => /\ (TokenExchanges(nx) > TokenExchanges(cl) /\ nx.pc # "idle")
                  => cl.pc = "idle" /\ nx.op = "authenticate"
             /\ (cl.pc = "idle" /\ nx.op = "getToken")
                  => nx.pc = "done" /\ nx.result = Ok(token) /\ nx.sent = <<>>
             /\ (cl.pc = "idle" /\ nx.op = "_request")
                  => /\ nx.pc = "orig" /\ Len(nx.sent) = 1
                     /\ nx.sent[1].path # "/token" /\ nx.sent[1].auth = token
             /\ ( /\ cl.pc = "orig" /\ nx.answered > cl.answered
                  /\ nx.first[1].status = 401 )
                  => /\ nx.pc = "done"
                     /\ nx.result.kind = "error"
                     /\ nx.result.name = "BazikAuthError"
                     /\ nx.result.status = Some(401)
                     /\ nx.sent = cl.sent
                     /\ token' = token /\ tokenExpiresAt' = tokenExpiresAt
    ]_vars

\* C38 witness: with auto-refresh off and a stored token that is not valid,
\* the third call in a row is a _request that was answered 401 and has ended
\* with BazikAuthError after its single exchange, which carried that token.
NoRenewalWithoutAutoRefreshWitness ==
  \E c \in Calls :
    LET cl == calls[c]
    IN /\ ~autoRefresh /\ token # None /\ ~isTokenValid
       /\ started = 3
       /\ cl.op = "_request" /\ cl.pc = "done"
       /\ Len(cl.sent) = 1 /\ cl.sent[1].auth = token
       /\ cl.first # None /\ cl.first[1].status = 401
       /\ cl.result.kind = "error" /\ cl.result.name = "BazikAuthError"

====
